---------------------------- MODULE Spec2Model ----------------------------
(***************************************************************************)
(* A model of the LTI 1.1 test platform (src/app.py) and of the sample     *)
(* tool provider (src/sample_tool.py).                                     *)
(*                                                                         *)
(* Text is modelled at the level of characters: a Python str is a sequence *)
(* of code points (ASCII codes), so that percent-encoding, sorting,        *)
(* base64, splitting and the literal-tag matching of the outcomes endpoint *)
(* are computed the way the code computes them.                            *)
(*                                                                         *)
(* Two library functions are modelled by their contract only:              *)
(*   - HMAC-SHA1 followed by base64 is an injective function of            *)
(*     (key, message): hmac_sha1_b64;                                      *)
(*   - uuid.uuid4() never returns the same value twice: uuid4, which       *)
(*     numbers the values by the call site that draws them.                *)
(***************************************************************************)
EXTENDS Integers, Sequences, FiniteSets, TLC

VARIABLES
    \* ---- platform database (src/app.py, init_db) ----
    tool_servers,   \* table tool_servers: sequence of rows
    tools,          \* table tools
    course_tools,   \* table course_tools
    launch_logs,    \* table launch_logs
    grade_results,  \* table grade_results
    \* ---- sample tool (src/sample_tool.py) ----
    launches,       \* the module-level dict `launches`, in insertion order
    \* ---- environment ----
    forms,          \* auto-submit launch forms rendered by launch_tool
    response,       \* the HTTP response of the last request handled
    posts,          \* POSTs sent to an outcomes URL, each with its reply
    sqlite_sequence,\* the last AUTOINCREMENT id of each table
    uuid_ctr,       \* per call site of uuid4(), the number of values put to use
    now,            \* the last reading of time.time(), in whole seconds
    \* ---- direct calls of the pure functions ----
    pc,             \* position of the direct call
    inp,            \* its arguments
    out             \* its results

vars == <<tool_servers, tools, course_tools, launch_logs, grade_results,
          launches, forms, response, posts, sqlite_sequence, uuid_ctr, now,
          pc, inp, out>>

dbvars == <<tool_servers, tools, course_tools, launch_logs, grade_results,
            sqlite_sequence>>
sysvars == <<tool_servers, tools, course_tools, launch_logs, grade_results,
             launches, forms, response, posts, sqlite_sequence, uuid_ctr, now>>
callvars == <<pc, inp, out>>

-----------------------------------------------------------------------------
(***************************************************************************)
(* Bounds of the model.                                                    *)
(***************************************************************************)
MaxParams == 2       \* entries of a parameter mapping in a direct call
MaxFieldLen == 2     \* characters of a field of a sourced id in a direct call
MaxServers == 1      \* tool servers ever added
MaxTools == 1        \* tools ever added
MaxCourseTools == 2  \* course tool associations ever added
MaxLaunches == 1     \* launches ever logged by the platform
MaxStored == 1       \* launches stored by the sample tool
MaxPosts == 2        \* POSTs sent to an outcomes URL
MaxClock == 1        \* seconds the clock advances
MaxBuilds == 2       \* direct calls of the builder on the same arguments
MaxDeliveries == 2   \* times a client posts its launch request to the sample tool

-----------------------------------------------------------------------------
(***************************************************************************)
(* Python str and dict.                                                    *)
(***************************************************************************)

\* The None value; no string is equal to it.
None == <<-9>>

\* cmp(a, b) of two str from position i on: code point order.
RECURSIVE StrCmp(_, _, _)
StrCmp(a, b, i) ==
    IF i > Len(a) THEN (IF i > Len(b) THEN 0 ELSE -1)
    ELSE IF i > Len(b) THEN 1
    ELSE IF a[i] < b[i] THEN -1
    ELSE IF a[i] > b[i] THEN 1
    ELSE StrCmp(a, b, i + 1)

StrLess(a, b) == StrCmp(a, b, 1) < 0

\* s.startswith(p)
StartsWith(s, p) ==
    /\ Len(p) <= Len(s)
    /\ \A i \in 1..Len(p) : s[i] = p[i]

\* sep.join(parts)
RECURSIVE JoinRange(_, _, _, _)
JoinRange(sep, parts, lo, hi) ==
    IF lo > hi THEN <<>>
    ELSE IF lo = hi THEN parts[lo]
    ELSE LET mid == (lo + hi) \div 2
         IN  JoinRange(sep, parts, lo, mid) \o sep \o JoinRange(sep, parts, mid + 1, hi)

Join(sep, parts) == JoinRange(sep, parts, 1, Len(parts))

\* A dict is the sequence of its (key, value) items in insertion order.
DictKeys(d) == {d[i][1] : i \in 1..Len(d)}

DictHas(d, k) == \E i \in 1..Len(d) : d[i][1] = k

\* d.get(k, default)
DictGet(d, k, default) ==
    IF DictHas(d, k)
    THEN d[CHOOSE i \in 1..Len(d) : d[i][1] = k][2]
    ELSE default

\* d[k] = v : an existing key keeps its position, a new key goes last.
DictSet(d, k, v) ==
    IF DictHas(d, k)
    THEN [i \in 1..Len(d) |-> IF d[i][1] = k THEN <<k, v>> ELSE d[i]]
    ELSE Append(d, <<k, v>>)

\* {k: v for k, v in d.items() if k != key}
DictWithout(d, key) == SelectSeq(d, LAMBDA it : it[1] # key)

IsDict(d) ==
    \A i, j \in 1..Len(d) : i # j => d[i][1] # d[j][1]

-----------------------------------------------------------------------------
(***************************************************************************)
(* OAuth 1.0a signature: generate_oauth_signature (src/app.py) and         *)
(* verify_oauth_signature (src/sample_tool.py).                            *)
(***************************************************************************)

\* Characters urllib.parse.quote(s, safe='') never escapes:
\* letters, digits and "_", ".", "-", "~".
Unreserved(c) ==
    \/ c \in 65..90
    \/ c \in 97..122
    \/ c \in 48..57
    \/ c \in {95, 46, 45, 126}

\* The upper-case hexadecimal digit of d, as a character.
HexDigit(d) == IF d < 10 THEN 48 + d ELSE 55 + d

\* A quote that leaves "%" as it is, so that already escaped text passes
\* through unchanged.
QuoteChar_percent_safe(c) ==
    IF c \in 65..90 \/ c \in 97..122 \/ c \in 48..57 \/ c \in {95, 46, 45, 126, 37}
    THEN <<c>>
    ELSE <<37, HexDigit(c \div 16), HexDigit(c % 16)>>

\* A quote with the default safe='/' of urllib.parse.quote: "/" stays as it is.
QuoteChar_slash_safe(c) ==
    IF c \in 65..90 \/ c \in 97..122 \/ c \in 48..57 \/ c \in {95, 46, 45, 126, 47}
    THEN <<c>>
    ELSE <<37, HexDigit(c \div 16), HexDigit(c % 16)>>

\* quote of one ASCII character: itself, or "%XX".
QuoteChar(c) ==
    IF Unreserved(c) THEN <<c>>
    ELSE <<37, HexDigit(c \div 16), HexDigit(c % 16)>>

RECURSIVE QuoteRange(_, _, _)
QuoteRange(s, lo, hi) ==
    IF lo > hi THEN <<>>
    ELSE IF lo = hi THEN QuoteChar(s[lo])
    ELSE LET mid == (lo + hi) \div 2
         IN  QuoteRange(s, lo, mid) \o QuoteRange(s, mid + 1, hi)

\* urllib.parse.quote(s, safe='')
quote(s) == QuoteRange(s, 1, Len(s))

\* str.upper() of one ASCII character, and of a str.
UpperChar(c) == IF c \in 97..122 THEN c - 32 ELSE c

upper(s) == [i \in 1..Len(s) |-> UpperChar(s[i])]

\* The order of sorted(params.items()): tuples (key, value), compared by
\* key and then by value, both by code point (the raw, unencoded text).
ItemLess(x, y) ==
    LET c == StrCmp(x[1], y[1], 1)
    IN  c < 0 \/ (c = 0 /\ StrLess(x[2], y[2]))

\* Insert item x into the sorted sequence s.
RECURSIVE SortedInsert(_, _, _)
SortedInsert(s, x, i) ==
    IF i > Len(s) THEN Append(s, x)
    ELSE IF ItemLess(x, s[i])
         THEN SubSeq(s, 1, i - 1) \o <<x>> \o SubSeq(s, i, Len(s))
         ELSE SortedInsert(s, x, i + 1)

RECURSIVE SortedPrefix(_, _)
SortedPrefix(d, n) ==
    IF n = 0 THEN <<>>
    ELSE SortedInsert(SortedPrefix(d, n - 1), d[n], 1)

\* sorted(params.items())
sorted_items(d) == SortedPrefix(d, Len(d))

\* "&".join(quote(k) + "=" + quote(v) for k, v in sorted_params)
param_string(sorted_params) ==
    Join(<<38>>,
         [i \in 1..Len(sorted_params) |->
             quote(sorted_params[i][1]) \o <<61>> \o quote(sorted_params[i][2])])

\* "&".join([method.upper(), quote(url), quote(param_string)])
signature_base(method, url, params) ==
    Join(<<38>>,
         <<upper(method), quote(url), quote(param_string(sorted_items(params)))>>)

\* quote(consumer_secret) + "&"
signing_key(consumer_secret) == quote(consumer_secret) \o <<38>>

\* base64(HMAC-SHA1(key, msg)) as text.  Modelled as an injective function of
\* (key, msg): the three negative marks occur in no text, key ends at the
\* second mark and msg at the third.  What stands between the first and the
\* third mark is the digest, from which neither key nor msg can be read.
hmac_sha1_b64(key, msg) == <<-1>> \o key \o <<-2>> \o msg \o <<-3>>

generate_oauth_signature(method, url, params, consumer_secret) ==
    hmac_sha1_b64(signing_key(consumer_secret), signature_base(method, url, params))

\* The key 'oauth_signature'.
oauth_signature == <<111,97,117,116,104,95,115,105,103,110,97,116,117,114,101>>

\* hmac.compare_digest(a, b)
compare_digest(a, b) == a = b

\* A verifier that signs the parameters as received, oauth_signature included.
verify_oauth_signature_unstripped(method, url, params, consumer_secret, received_signature) ==
    compare_digest(
        hmac_sha1_b64(signing_key(consumer_secret), signature_base(method, url, params)),
        received_signature)

verify_oauth_signature(method, url, params, consumer_secret, received_signature) ==
    LET verify_params == DictWithout(params, oauth_signature)
        expected_signature ==
            hmac_sha1_b64(signing_key(consumer_secret),
                          signature_base(method, url, verify_params))
    IN  compare_digest(expected_signature, received_signature)

-----------------------------------------------------------------------------
(***************************************************************************)
(* The state after construction: init_db and seed_demo_data have run, the  *)
(* sample tool has an empty launch store, nothing is in flight.            *)
(***************************************************************************)
NoResponse == [status |-> 0, body |-> <<>>, page |-> "none"]

SysInit ==
    /\ tool_servers = <<>>
    /\ tools = <<>>
    /\ course_tools = <<>>
    /\ launch_logs = <<>>
    /\ grade_results = <<>>
    /\ launches = <<>>
    /\ forms = <<>>
    /\ response = NoResponse
    /\ posts = <<>>
    /\ sqlite_sequence = [tool_servers |-> 0, tools |-> 0, course_tools |-> 0,
                          launch_logs |-> 0, grade_results |-> 0]
    /\ uuid_ctr = [resource_link_id |-> 0, nonce |-> 0, launch_id |-> 0,
                   message_id |-> 0, msg_id |-> 0]
    /\ now = 0

-----------------------------------------------------------------------------
(***************************************************************************)
(* SpecSigner: direct calls of generate_oauth_signature and                *)
(* verify_oauth_signature on every request (M, U, P, S) of a bounded set,  *)
(* the request being verified as signed, or after one change.             *)
(***************************************************************************)
SignerMethods == {<<80,79,83,84>>, <<112,111,115,116>>, <<71,69,84>>}   \* "POST", "post", "GET"
SignerUrls == {<<104,116,116,112,58,47,47,104,47,97>>, <<104,116,116,112,58,47,47,104,47,98>>} \* "http://h/a", "http://h/b"
SignerKeys == {<<122>>, <<123>>, oauth_signature}           \* "z", "{", "oauth_signature"
SignerValues == {<<32>>, <<37,50,48>>, <<97>>}          \* " ", "%20", "a"
SignerSecrets == {<<116,101,115,116,95,115,101,99,114,101,116>>, <<115,38>>}  \* "test_secret", "s&"

\* Every dict of at most n items over the keys and values above.
SignerDicts(n) ==
    {d \in UNION {[1..k -> SignerKeys \X SignerValues] : k \in 0..n} : IsDict(d)}

SignerInit ==
    /\ SysInit
    /\ pc = "start"
    /\ inp \in [method : SignerMethods, url : SignerUrls,
                params : SignerDicts(MaxParams), secret : SignerSecrets]
    /\ out = [sig |-> None, ok |-> FALSE, signed |-> None, change |-> "none"]

\* sig = generate_oauth_signature(M, U, P, S)
SignRequest ==
    /\ pc = "start"
    /\ out' = [out EXCEPT
                 !.sig = generate_oauth_signature(inp.method, inp.url, inp.params, inp.secret),
                 !.signed = inp]
    /\ pc' = "signed"
    /\ UNCHANGED <<inp, sysvars>>

\* verify_oauth_signature(M, U, P plus {oauth_signature: sig}, S, sig)
VerifyRequest ==
    /\ pc \in {"signed", "changed"}
    /\ out' = [out EXCEPT
                 !.ok = verify_oauth_signature(inp.method, inp.url,
                            DictSet(inp.params, oauth_signature, out.sig),
                            inp.secret, out.sig)]
    /\ pc' = "verified"
    /\ UNCHANGED <<inp, sysvars>>

\* One parameter value of the signed request is replaced by a different one.
ChangeValue ==
    /\ pc = "signed"
    /\ \E i \in 1..Len(inp.params), v \in SignerValues :
          /\ v # inp.params[i][2]
          /\ inp' = [inp EXCEPT !.params[i] = <<inp.params[i][1], v>>]
    /\ out' = [out EXCEPT !.change = "value"]
    /\ pc' = "changed"
    /\ UNCHANGED sysvars

\* The URL of the signed request is replaced by a different one.
ChangeUrl ==
    /\ pc = "signed"
    /\ \E u \in SignerUrls :
          /\ u # inp.url
          /\ inp' = [inp EXCEPT !.url = u]
    /\ out' = [out EXCEPT !.change = "url"]
    /\ pc' = "changed"
    /\ UNCHANGED sysvars

\* The method of the signed request is replaced by a different one.
ChangeMethod ==
    /\ pc = "signed"
    /\ \E m \in SignerMethods :
          /\ m # inp.method
          /\ inp' = [inp EXCEPT !.method = m]
    /\ out' = [out EXCEPT !.change = "method"]
    /\ pc' = "changed"
    /\ UNCHANGED sysvars

SignerNext ==
    \/ SignRequest
    \/ VerifyRequest
    \/ ChangeValue
    \/ ChangeUrl
    \/ ChangeMethod

SpecSigner == SignerInit /\ [][SignerNext]_vars

\* C1: a request whose parameters hold no oauth_signature entry, signed with
\* generate_oauth_signature and verified unchanged together with its
\* signature under the same secret, is accepted by verify_oauth_signature.
C1_SignThenVerify ==
    (/\ pc = "verified"
     /\ out.change = "none"
     /\ ~DictHas(inp.params, oauth_signature))
    => out.ok = TRUE

C1_Witness ==
    /\ pc = "verified"
    /\ out.change = "none"
    /\ ~DictHas(inp.params, oauth_signature)
    /\ Len(inp.params) = 2
    /\ out.ok = TRUE

\* C2 as stated: after any change of one parameter value, of the URL or of
\* the method to a different value, verification with the original
\* signature fails.
C2_AnyChangeRejected ==
    (pc = "verified" /\ out.change # "none") => out.ok = FALSE

\* C2 amended: verification with the original signature fails after a change
\* of one parameter value, of the URL, or of the method to a value that
\* differs from the signed one in more than letter case.
C2_ChangeRejected ==
    (/\ pc = "verified"
     /\ \/ out.change \in {"value", "url"}
        \/ out.change = "method" /\ upper(inp.method) # upper(out.signed.method))
    => out.ok = FALSE

C2_Witness ==
    /\ pc = "verified"
    /\ out.change = "value"
    /\ ~DictHas(inp.params, oauth_signature)
    /\ Len(inp.params) = 2
    /\ out.ok = FALSE

\* RFC 3986 percent-encoding as OAuth 1.0a prescribes it: the letters, the
\* digits and "-", ".", "_", "~" stand for themselves, every other character
\* becomes "%" and its two upper-case hexadecimal digits.
UpperHex == <<48,49,50,51,52,53,54,55,56,57,65,66,67,68,69,70>>     \* "0123456789ABCDEF"
LiteralChars ==
    {65,66,67,68,69,70,71,72,73,74,75,76,77,78,79,80,81,82,83,84,85,86,87,88,89,90,
     97,98,99,100,101,102,103,104,105,106,107,108,109,110,111,112,113,114,115,116,
     117,118,119,120,121,122,
     48,49,50,51,52,53,54,55,56,57,
     45, 46, 95, 126}
PercentEncode(s) ==
    Join(<<>>, [i \in 1..Len(s) |->
                   IF s[i] \in LiteralChars THEN <<s[i]>>
                   ELSE <<37, UpperHex[(s[i] \div 16) + 1], UpperHex[(s[i] % 16) + 1]>>])

\* The pairs (percent-encoded key, percent-encoded value) of a mapping, in
\* ascending order of the encoded key and then of the encoded value.
EncodedAscending(params) ==
    LET n == Len(params)
        enc == [i \in 1..n |-> <<PercentEncode(params[i][1]), PercentEncode(params[i][2])>>]
        order == CHOOSE f \in [1..n -> 1..n] :
                    /\ \A i, j \in 1..n : i # j => f[i] # f[j]
                    /\ \A i, j \in 1..n : i < j => ~ItemLess(enc[f[j]], enc[f[i]])
    IN  [i \in 1..n |-> enc[order[i]]]

\* C22: in the signature base string the parameters stand in ascending
\* order of their percent-encoded key, then of their percent-encoded value.
C22_SortedByEncodedKey ==
    (pc = "signed") =>
        out.sig = hmac_sha1_b64(signing_key(inp.secret),
                      Join(<<38>>,
                           <<upper(inp.method), quote(inp.url),
                             quote(Join(<<38>>,
                                 [i \in 1..Len(inp.params) |->
                                     EncodedAscending(inp.params)[i][1] \o <<61>>
                                         \o EncodedAscending(inp.params)[i][2]]))>>))

(***************************************************************************)
(* SpecEncoding: generate_oauth_signature on requests whose method, URL,   *)
(* parameter names and values hold the reserved characters "+", "/", ":",  *)
(* "&", "=", "?", the space, and the unreserved "-", ".", "_", "~".        *)
(***************************************************************************)
EncodingMethods == {<<112,111,115,116>>, <<71,101,116>>}            \* "post", "Get"
EncodingUrls ==
    {<<104,116,116,112,58,47,47,104,58,56,48,47,97,63,98,61,99,38,100>>,  \* "http://h:80/a?b=c&d"
     <<104,116,116,112,58,47,47,104,47,97,43,98,126>>}                    \* "http://h/a+b~"
EncodingKeys == {<<97,43,98>>, <<107>>}                              \* "a+b", "k"
EncodingValues == {<<47,58,38,61>>, <<126,45,46,95>>, <<120,32,121>>} \* "/:&=", "~-._", "x y"

EncodingInit ==
    /\ SysInit
    /\ pc = "start"
    /\ inp \in [method : EncodingMethods, url : EncodingUrls,
                params : {d \in UNION {[1..k -> EncodingKeys \X EncodingValues] :
                                          k \in 0..MaxParams} : IsDict(d)},
                secret : {<<116,101,115,116,95,115,101,99,114,101,116>>}]
    /\ out = [sig |-> None, ok |-> FALSE, signed |-> None, change |-> "none"]

EncodingNext ==
    \/ SignRequest
    \/ VerifyRequest

SpecEncoding == EncodingInit /\ [][EncodingNext]_vars

\* The number of positions of s holding the character c.
CountChar(s, c) == Cardinality({i \in 1..Len(s) : s[i] = c})

\* The base string the claim prescribes for the signed request.
ClaimedBaseString ==
    Join(<<38>>,
         <<[i \in 1..Len(inp.method) |->
               IF inp.method[i] \in 97..122 THEN inp.method[i] - 32 ELSE inp.method[i]],
           PercentEncode(inp.url),
           PercentEncode(Join(<<38>>,
               [i \in 1..Len(inp.params) |->
                   EncodedAscending(inp.params)[i][1] \o <<61>>
                       \o EncodedAscending(inp.params)[i][2]]))>>)

\* C23: the signed text is UPPER(method) & percentEncode(url) &
\* percentEncode(parameterString); in it only letters, digits and "-", ".",
\* "_", "~" stand for themselves: apart from the two joining "&" it holds
\* no "+", "/", ":", "&", "=", "?" and no space.
C23_BaseStringEncoding ==
    (pc = "signed") =>
        /\ out.sig = hmac_sha1_b64(<<116,101,115,116,95,115,101,99,114,101,116,38>>,
                                   ClaimedBaseString)
        /\ signature_base(inp.method, inp.url, inp.params) = ClaimedBaseString
        /\ CountChar(ClaimedBaseString, 38) = 2
        /\ \A i \in 1..Len(ClaimedBaseString) :
              ClaimedBaseString[i] \in LiteralChars \cup {37, 38}

C23_Witness ==
    /\ pc = "signed"
    /\ inp.method = <<112,111,115,116>>
    /\ inp.url = <<104,116,116,112,58,47,47,104,58,56,48,47,97,63,98,61,99,38,100>>
    /\ inp.params = << <<(<<97,43,98>>), (<<47,58,38,61>>)>>, <<(<<107>>), (<<126,45,46,95>>)>> >>
    /\ out.sig # None

-----------------------------------------------------------------------------
(***************************************************************************)
(* base64, UTF-8 and the sourced id:  base64 of "course:resource_link:user" *)
(* (build_lti_launch_params), decoded and split by receive_outcome.        *)
(***************************************************************************)

\* A failed call: the exception a Python call raised.
Raised == [ok |-> FALSE, val |-> <<>>]
Returned(v) == [ok |-> TRUE, val |-> v]

\* The base64 alphabet: the character of a 6-bit value.
B64Char(v) ==
    IF v < 26 THEN 65 + v
    ELSE IF v < 52 THEN 97 + (v - 26)
    ELSE IF v < 62 THEN 48 + (v - 52)
    ELSE IF v = 62 THEN 43
    ELSE 47

\* The 6-bit value of a character, 64 for a character outside the alphabet.
B64Value(c) ==
    IF c \in 65..90 THEN c - 65
    ELSE IF c \in 97..122 THEN c - 97 + 26
    ELSE IF c \in 48..57 THEN c - 48 + 52
    ELSE IF c = 43 THEN 62
    ELSE IF c = 47 THEN 63
    ELSE 64

\* The character at position k of base64.b64encode(b): three bytes give
\* four characters.
B64At(b, k) ==
    LET g == 3 * ((k - 1) \div 4)             \* bytes before the group
        byte(m) == IF g + m <= Len(b) THEN b[g + m] ELSE 0
        r == (k - 1) % 4
    IN  IF r = 0 THEN B64Char(byte(1) \div 4)
        ELSE IF r = 1 THEN B64Char((byte(1) % 4) * 16 + byte(2) \div 16)
        ELSE IF r = 2 THEN B64Char((byte(2) % 16) * 4 + byte(3) \div 64)
        ELSE B64Char(byte(3) % 64)

\* base64 without the closing "=" padding.
b64encode_unpadded(b) ==
    [k \in 1..((4 * Len(b) + 2) \div 3) |-> B64At(b, k)]

\* base64.b64encode(b): a last group of one or two bytes is padded with "=".
b64encode(b) ==
    [k \in 1..(4 * ((Len(b) + 2) \div 3)) |->
        IF k <= (4 * Len(b) + 2) \div 3 THEN B64At(b, k) ELSE 61]

\* binascii.a2b_base64 in its default, non-strict mode.  The scan keeps
\* quad_pos, the number of data characters read modulo 4, and pads, the
\* number of "=" read since the last data character while quad_pos >= 2.
\* Characters outside the alphabet are skipped; an "=" with quad_pos >= 2 and
\* quad_pos + pads >= 4 ends the decoding, whatever follows; an incomplete
\* group at the end of the text raises binascii.Error.
a2b_base64(s) ==
    LET IsData(i) == s[i] # 61 /\ B64Value(s[i]) < 64
        DataBefore(i) == {j \in 1..(i - 1) : IsData(j)}
        quad_pos(i) == Cardinality(DataBefore(i)) % 4
        pads(i) == Cardinality({j \in 1..i : s[j] = 61 /\ \A d \in DataBefore(i) : d < j})
        stops == {i \in 1..Len(s) :
                    s[i] = 61 /\ quad_pos(i) >= 2 /\ quad_pos(i) + pads(i) >= 4}
        end == IF stops = {} THEN Len(s) + 1
               ELSE CHOOSE i \in stops : \A j \in stops : i <= j
        data == SelectSeq(SubSeq(s, 1, end - 1), LAMBDA c : c # 61 /\ B64Value(c) < 64)
        d(m) == B64Value(data[m])
        n == Len(data)
        nbytes == 3 * (n \div 4) + (IF n % 4 = 0 THEN 0 ELSE (n % 4) - 1)
    IN  IF stops = {} /\ n % 4 # 0 THEN Raised
        ELSE Returned(
            [k \in 1..nbytes |->
                LET g == 4 * ((k - 1) \div 3)
                    r == (k - 1) % 3
                IN  IF r = 0 THEN d(g + 1) * 4 + d(g + 2) \div 16
                    ELSE IF r = 1 THEN (d(g + 2) % 16) * 16 + d(g + 3) \div 4
                    ELSE (d(g + 3) % 4) * 64 + d(g + 4)])

\* base64.b64decode(s) of a str: a character outside ASCII raises ValueError.
b64decode(s) ==
    IF \E i \in 1..Len(s) : s[i] > 127 THEN Raised
    ELSE a2b_base64(s)

IsCont(b, i) == i <= Len(b) /\ b[i] \in 128..191

\* bytes.decode() (UTF-8, strict) from byte i on; acc the code points so far.
RECURSIVE utf8_decode(_, _, _)
utf8_decode(b, i, acc) ==
    IF i > Len(b) THEN Returned(acc)
    ELSE LET c == b[i]
         IN  IF c < 128 THEN utf8_decode(b, i + 1, Append(acc, c))
             ELSE IF c \in 194..223 THEN
                 IF IsCont(b, i + 1)
                 THEN utf8_decode(b, i + 2, Append(acc, (c - 192) * 64 + (b[i+1] - 128)))
                 ELSE Raised
             ELSE IF c \in 224..239 THEN
                 IF /\ IsCont(b, i + 1) /\ IsCont(b, i + 2)
                    /\ (c = 224 => b[i+1] >= 160)
                    /\ (c = 237 => b[i+1] <= 159)
                 THEN utf8_decode(b, i + 3,
                          Append(acc, (c - 224) * 4096 + (b[i+1] - 128) * 64 + (b[i+2] - 128)))
                 ELSE Raised
             ELSE IF c \in 240..244 THEN
                 IF /\ IsCont(b, i + 1) /\ IsCont(b, i + 2) /\ IsCont(b, i + 3)
                    /\ (c = 240 => b[i+1] >= 144)
                    /\ (c = 244 => b[i+1] <= 143)
                 THEN utf8_decode(b, i + 4,
                          Append(acc, (c - 240) * 262144 + (b[i+1] - 128) * 4096
                                      + (b[i+2] - 128) * 64 + (b[i+3] - 128)))
                 ELSE Raised
             ELSE Raised

\* s.split(sep) for a one-character separator: the pieces between the
\* separators, empty pieces included.
split(s, sep) ==
    LET at == {i \in 1..Len(s) : s[i] = sep}
        n == Cardinality(at)
        \* cut[k]: position of the k-th separator; cut[0] = 0, cut[n+1] = Len+1
        cut == [k \in 0..(n + 1) |->
                  IF k = 0 THEN 0
                  ELSE IF k = n + 1 THEN Len(s) + 1
                  ELSE CHOOSE i \in at : Cardinality({j \in at : j < i}) = k - 1]
    IN  [k \in 1..(n + 1) |-> SubSeq(s, cut[k - 1] + 1, cut[k] - 1)]

\* A sourced id with the user first and the course last.
sourced_id_of_user_first(course_id, resource_link_id, user_id) ==
    b64encode(user_id \o <<58>> \o resource_link_id \o <<58>> \o course_id)

\* base64.b64encode(f"{course_id}:{resource_link_id}:{user_id}".encode()).decode()
\* for the three values already converted to text.
sourced_id_of(course_id, resource_link_id, user_id) ==
    b64encode(course_id \o <<58>> \o resource_link_id \o <<58>> \o user_id)

\* decoded = base64.b64decode(sourced_id).decode(); parts = decoded.split(':')
\* Raised when either call raises.
decode_sourced_id(sourced_id) ==
    LET raw == b64decode(sourced_id)
    IN  IF ~raw.ok THEN Raised
        ELSE LET text == IF \A i \in 1..Len(raw.val) : raw.val[i] < 128
                         THEN Returned(raw.val)
                         ELSE utf8_decode(raw.val, 1, <<>>)
             IN  IF ~text.ok THEN Raised
                 ELSE Returned(split(text.val, 58))

-----------------------------------------------------------------------------
(***************************************************************************)
(* SpecCodec: the sourced id of every triple of a bounded set, encoded as  *)
(* the builder encodes it and decoded as receive_outcome decodes it.       *)
(***************************************************************************)
CodecChars == {55, 97, 58}     \* "7", "a", ":"

CodecFields == UNION {[1..n -> CodecChars] : n \in 0..MaxFieldLen}

\* The triple of the documented example: (7, "abc-123", 42).
ExampleTriple == <<<<55>>, <<97,98,99,45,49,50,51>>, <<52,50>>>>

CodecInit ==
    /\ SysInit
    /\ pc = "start"
    /\ inp \in (CodecFields \X CodecFields \X CodecFields) \cup {ExampleTriple}
    /\ out = [sid |-> None, decoded |-> Raised]

EncodeSourcedId ==
    /\ pc = "start"
    /\ out' = [out EXCEPT !.sid = sourced_id_of(inp[1], inp[2], inp[3])]
    /\ pc' = "encoded"
    /\ UNCHANGED <<inp, sysvars>>

DecodeSourcedId ==
    /\ pc = "encoded"
    /\ out' = [out EXCEPT !.decoded = decode_sourced_id(out.sid)]
    /\ pc' = "decoded"
    /\ UNCHANGED <<inp, sysvars>>

CodecNext == EncodeSourcedId \/ DecodeSourcedId

SpecCodec == CodecInit /\ [][CodecNext]_vars

HasColon(s) == \E i \in 1..Len(s) : s[i] = 58

\* C3: for a triple of ASCII values without ":", decoding the sourced id the
\* builder produced (base64-decode, split on ":") succeeds and yields exactly
\* the three original fields; (7, "abc-123", 42) is encoded as the base64 of
\* "7:abc-123:42", which is "NzphYmMtMTIzOjQy".
C3_SourcedIdRoundTrip ==
    /\ (/\ pc = "decoded"
        /\ ~HasColon(inp[1]) /\ ~HasColon(inp[2]) /\ ~HasColon(inp[3]))
       => (out.decoded.ok /\ out.decoded.val = inp)
    /\ (pc # "start" /\ inp = ExampleTriple)
       => out.sid = <<78,122,112,104,89,109,77,116,77,84,73,122,79,106,81,121>>

C3_Witness ==
    /\ pc = "decoded"
    /\ inp = ExampleTriple
    /\ out.sid = <<78,122,112,104,89,109,77,116,77,84,73,122,79,106,81,121>>
    /\ out.decoded = Returned(ExampleTriple)

-----------------------------------------------------------------------------
(***************************************************************************)
(* build_lti_launch_params (src/app.py).                                   *)
(***************************************************************************)

\* str(n) of an int n >= 0.
RECURSIVE IntToStr(_)
IntToStr(n) ==
    IF n < 10 THEN <<48 + n>>
    ELSE Append(IntToStr(n \div 10), 48 + (n % 10))

\* str(uuid.uuid4()): 36 characters, hexadecimal digits in groups of 8-4-4-4-12.
\* The n-th value drawn at a call site differs from the values drawn there
\* before and from the values drawn at the other sites (site < 10, n < 100).
\* The sites: 1 add_tool_to_course, 2 build_lti_launch_params, 3 lti_launch,
\* 4 send_grade, 5 receive_outcome.

\* A generator that returns one value per call site, whatever was drawn before.
uuid4_per_site(site, n) ==
    <<48 + site,48,48,48,48,48,48,48,45,48,48,48,48,45,52,48,48,48,45,56,48,48,48,45,48,48,48,48,48,48,48,48,48,48,48,48>>

uuid4(site, n) ==
    <<48 + site,48,48,48,48,48,48,48,45,48,48,48,48,45,52,48,48,48,45,56,48,48,48,45,48,48,48,48,48,48,48,48,48,48>> \o <<48 + (n \div 10), 48 + (n % 10)>>

\* A key a dict does not hold: reading it raises KeyError.
Missing == <<-8>>

\* The wire names of the launch parameters.
K == [
    lti_message_type |-> <<108,116,105,95,109,101,115,115,97,103,101,95,116,121,112,101>>,
    lti_version |-> <<108,116,105,95,118,101,114,115,105,111,110>>,
    oauth_consumer_key |-> <<111,97,117,116,104,95,99,111,110,115,117,109,101,114,95,107,101,121>>,
    oauth_signature_method |-> <<111,97,117,116,104,95,115,105,103,110,97,116,117,114,101,95,109,101,116,104,111,100>>,
    oauth_timestamp |-> <<111,97,117,116,104,95,116,105,109,101,115,116,97,109,112>>,
    oauth_nonce |-> <<111,97,117,116,104,95,110,111,110,99,101>>,
    oauth_version |-> <<111,97,117,116,104,95,118,101,114,115,105,111,110>>,
    oauth_callback |-> <<111,97,117,116,104,95,99,97,108,108,98,97,99,107>>,
    resource_link_id |-> <<114,101,115,111,117,114,99,101,95,108,105,110,107,95,105,100>>,
    resource_link_title |-> <<114,101,115,111,117,114,99,101,95,108,105,110,107,95,116,105,116,108,101>>,
    context_id |-> <<99,111,110,116,101,120,116,95,105,100>>,
    context_label |-> <<99,111,110,116,101,120,116,95,108,97,98,101,108>>,
    context_title |-> <<99,111,110,116,101,120,116,95,116,105,116,108,101>>,
    context_type |-> <<99,111,110,116,101,120,116,95,116,121,112,101>>,
    user_id |-> <<117,115,101,114,95,105,100>>,
    lis_person_name_given |-> <<108,105,115,95,112,101,114,115,111,110,95,110,97,109,101,95,103,105,118,101,110>>,
    lis_person_name_family |-> <<108,105,115,95,112,101,114,115,111,110,95,110,97,109,101,95,102,97,109,105,108,121>>,
    lis_person_name_full |-> <<108,105,115,95,112,101,114,115,111,110,95,110,97,109,101,95,102,117,108,108>>,
    lis_person_contact_email_primary |-> <<108,105,115,95,112,101,114,115,111,110,95,99,111,110,116,97,99,116,95,101,109,97,105,108,95,112,114,105,109,97,114,121>>,
    roles |-> <<114,111,108,101,115>>,
    lis_outcome_service_url |-> <<108,105,115,95,111,117,116,99,111,109,101,95,115,101,114,118,105,99,101,95,117,114,108>>,
    lis_result_sourcedid |-> <<108,105,115,95,114,101,115,117,108,116,95,115,111,117,114,99,101,100,105,100>>,
    launch_presentation_locale |-> <<108,97,117,110,99,104,95,112,114,101,115,101,110,116,97,116,105,111,110,95,108,111,99,97,108,101>>,
    launch_presentation_document_target |-> <<108,97,117,110,99,104,95,112,114,101,115,101,110,116,97,116,105,111,110,95,100,111,99,117,109,101,110,116,95,116,97,114,103,101,116>>,
    tool_consumer_instance_guid |-> <<116,111,111,108,95,99,111,110,115,117,109,101,114,95,105,110,115,116,97,110,99,101,95,103,117,105,100>>,
    tool_consumer_instance_name |-> <<116,111,111,108,95,99,111,110,115,117,109,101,114,95,105,110,115,116,97,110,99,101,95,110,97,109,101>>,
    tool_consumer_instance_description |-> <<116,111,111,108,95,99,111,110,115,117,109,101,114,95,105,110,115,116,97,110,99,101,95,100,101,115,99,114,105,112,116,105,111,110>>,
    tool_consumer_info_product_family_code |-> <<116,111,111,108,95,99,111,110,115,117,109,101,114,95,105,110,102,111,95,112,114,111,100,117,99,116,95,102,97,109,105,108,121,95,99,111,100,101>>,
    tool_consumer_info_version |-> <<116,111,111,108,95,99,111,110,115,117,109,101,114,95,105,110,102,111,95,118,101,114,115,105,111,110>> ]

\* Text constants of the code.
Txt == [
    teacher |-> <<116,101,97,99,104,101,114>>,
    student |-> <<115,116,117,100,101,110,116>>,
    Instructor |-> <<73,110,115,116,114,117,99,116,111,114>>,
    Learner |-> <<76,101,97,114,110,101,114>>,
    custom_ |-> <<99,117,115,116,111,109,95>>,
    POST |-> <<80,79,83,84>>,
    basic_lti_launch_request |-> <<98,97,115,105,99,45,108,116,105,45,108,97,117,110,99,104,45,114,101,113,117,101,115,116>>,
    LTI_1p0 |-> <<76,84,73,45,49,112,48>>,
    HMAC_SHA1 |-> <<72,77,65,67,45,83,72,65,49>>,
    v1_0 |-> <<49,46,48>>,
    about_blank |-> <<97,98,111,117,116,58,98,108,97,110,107>>,
    CourseSection |-> <<67,111,117,114,115,101,83,101,99,116,105,111,110>>,
    en_US |-> <<101,110,45,85,83>>,
    iframe |-> <<105,102,114,97,109,101>>,
    guid |-> <<108,116,105,45,116,101,115,116,45,112,108,97,116,102,111,114,109,46,108,111,99,97,108>>,
    instance_name |-> <<76,84,73,32,84,101,115,116,32,80,108,97,116,102,111,114,109>>,
    instance_description |-> <<76,111,99,97,108,32,76,84,73,32,49,46,49,32,84,101,115,116,105,110,103,32,69,110,118,105,114,111,110,109,101,110,116>>,
    family_code |-> <<108,116,105,45,116,101,115,116,45,112,108,97,116,102,111,114,109>> ]

\* str.isspace() of an ASCII character.
IsSpace(c) == c \in {9, 10, 11, 12, 13, 28, 29, 30, 31, 32}

\* s.split(): the maximal runs of characters that are not whitespace.
split_ws(s) ==
    LET starts == {i \in 1..Len(s) : ~IsSpace(s[i]) /\ (i = 1 \/ IsSpace(s[i-1]))}
        n == Cardinality(starts)
        start == [k \in 1..n |->
                    CHOOSE i \in starts : Cardinality({j \in starts : j < i}) = k - 1]
        stop(i) == CHOOSE j \in i..Len(s) :
                      /\ \A m \in i..j : ~IsSpace(s[m])
                      /\ (j = Len(s) \/ IsSpace(s[j+1]))
    IN  [k \in 1..n |-> SubSeq(s, start[k], stop(start[k]))]

\* A mapping that knows 'teacher' and 'student' and passes other roles on.
lti_role_passthrough(role) ==
    IF role = Txt.teacher THEN Txt.Instructor
    ELSE IF role = Txt.student THEN Txt.Learner
    ELSE role

\* lti_role
lti_role(role) == IF role = Txt.teacher THEN Txt.Instructor ELSE Txt.Learner

\* user['name'].split()[0]
name_given(name) == split_ws(name)[1]

\* " ".join(user['name'].split()[1:]), without the fallback.
name_family_rest(name) == Join(<<32>>, Tail(split_ws(name)))

\* " ".join(user['name'].split()[1:]) or user['name']
name_family(name) ==
    LET rest == Join(<<32>>, Tail(split_ws(name)))
    IN  IF rest # <<>> THEN rest ELSE name

\* A custom parameter stored under its own name, without the prefix.
param_key_raw(key) == key

\* param_key = f"custom_{key}" if not key.startswith("custom_") else key
param_key(key) == IF ~StartsWith(key, Txt.custom_) THEN Txt.custom_ \o key ELSE key

\* for key, value in custom_params.items(): params[param_key] = value
RECURSIVE add_custom_params(_, _, _)
add_custom_params(params, custom_params, i) ==
    IF i > Len(custom_params) THEN params
    ELSE add_custom_params(
             DictSet(params, param_key(custom_params[i][1]), custom_params[i][2]),
             custom_params, i + 1)

\* The dict literal of build_lti_launch_params, in source order.
fixed_params(tool, course, user, resource_link_id, resource_link_title, outcomes_url, timestamp, nonce) ==
    << <<K.lti_message_type, Txt.basic_lti_launch_request>>,
       <<K.lti_version, Txt.LTI_1p0>>,
       <<K.oauth_consumer_key, tool.consumer_key>>,
       <<K.oauth_signature_method, Txt.HMAC_SHA1>>,
       <<K.oauth_timestamp, timestamp>>,
       <<K.oauth_nonce, nonce>>,
       <<K.oauth_version, Txt.v1_0>>,
       <<K.oauth_callback, Txt.about_blank>>,
       <<K.resource_link_id, resource_link_id>>,
       <<K.resource_link_title, resource_link_title>>,
       <<K.context_id, IntToStr(course.id)>>,
       <<K.context_label, course.code>>,
       <<K.context_title, course.name>>,
       <<K.context_type, Txt.CourseSection>>,
       <<K.user_id, IntToStr(user.id)>>,
       <<K.lis_person_name_given, name_given(user.name)>>,
       <<K.lis_person_name_family, name_family(user.name)>>,
       <<K.lis_person_name_full, user.name>>,
       <<K.lis_person_contact_email_primary, user.email>>,
       <<K.roles, lti_role(user.role)>>,
       <<K.lis_outcome_service_url, outcomes_url>>,
       <<K.lis_result_sourcedid,
         sourced_id_of(IntToStr(course.id), resource_link_id, IntToStr(user.id))>>,
       <<K.launch_presentation_locale, Txt.en_US>>,
       <<K.launch_presentation_document_target, Txt.iframe>>,
       <<K.tool_consumer_instance_guid, Txt.guid>>,
       <<K.tool_consumer_instance_name, Txt.instance_name>>,
       <<K.tool_consumer_instance_description, Txt.instance_description>>,
       <<K.tool_consumer_info_product_family_code, Txt.family_code>>,
       <<K.tool_consumer_info_version, Txt.v1_0>> >>

\* A builder that signs the fixed parameters and adds the custom ones after.
build_lti_launch_params_sign_first(tool, course, user, resource_link_id, resource_link_title, launch_url, outcomes_url, custom_params, timestamp, nonce) ==
    IF \/ Missing \in {tool.consumer_key, tool.consumer_secret,
                       course.code, course.name, user.name, user.email, user.role}
       \/ split_ws(user.name) = <<>>
    THEN Raised
    ELSE LET fixed == fixed_params(tool, course, user, resource_link_id,
                          resource_link_title, outcomes_url, timestamp, nonce)
             signature == generate_oauth_signature(Txt.POST, launch_url, fixed,
                                                   tool.consumer_secret)
         IN  Returned(add_custom_params(DictSet(fixed, oauth_signature, signature),
                                        custom_params, 1))

\* build_lti_launch_params; timestamp is str(int(time.time())) and nonce is
\* str(uuid.uuid4()) as drawn by the call.  custom_params is a dict, empty
\* for None.  Reading a key that a collaborator dict lacks raises KeyError,
\* and split()[0] of a name without any token raises IndexError.
build_lti_launch_params(tool, course, user, resource_link_id, resource_link_title, launch_url, outcomes_url, custom_params, timestamp, nonce) ==
    IF \/ Missing \in {tool.consumer_key, tool.consumer_secret,
                       course.code, course.name, user.name, user.email, user.role}
       \/ split_ws(user.name) = <<>>
    THEN Raised
    ELSE LET params == add_custom_params(
                 fixed_params(tool, course, user, resource_link_id,
                     resource_link_title, outcomes_url, timestamp, nonce),
                 custom_params, 1)
             signature == generate_oauth_signature(Txt.POST, launch_url, params,
                                                   tool.consumer_secret)
         IN  Returned(DictSet(params, oauth_signature, signature))

-----------------------------------------------------------------------------
(***************************************************************************)
(* SpecBuilder: direct calls of build_lti_launch_params on collaborator    *)
(* records of a bounded set, with fields present, empty or missing.        *)
(***************************************************************************)
BuilderTools ==
    [consumer_key : {<<116,101,115,116,95,107,101,121>>, <<>>, Missing},
     consumer_secret : {<<116,101,115,116,95,115,101,99,114,101,116>>, <<>>}]

BuilderCourses ==
    [id : {1}, code : {<<67,83,49,48,49>>, <<>>}, name : {<<73,110,116,114,111,100,117,99,116,105,111,110,32,116,111,32,80,121,116,104,111,110>>}]

BuilderUsers ==
    [id : {4},
     name : {<<68,105,97,110,97,32,80,114,105,110,99,101>>, <<77,97,100,111,110,110,97>>, <<>>},
     email : {<<100,105,97,110,97,46,112,114,105,110,99,101,64,101,120,97,109,112,108,101,46,101,100,117>>},
     role : {Txt.teacher, Txt.student}]

BuilderLinks == {<<114,108,45,49>>, <<>>}

BuilderCustom ==
    { <<>>,
      << <<<<97>>, <<49>>>> >>,
      << <<<<99,117,115,116,111,109,95,98>>, <<50>>>>, <<oauth_signature, <<120>>>> >>,
      << <<<<108,116,105,95,118,101,114,115,105,111,110>>, <<76,84,73,45,50,112,48>>>>, <<<<99,117,115,116,111,109,95,108,116,105,95,118,101,114,115,105,111,110>>, <<51>>>> >> }

BuilderLaunchUrl == <<104,116,116,112,58,47,47,108,111,99,97,108,104,111,115,116,58,56,48,56,48,47,108,116,105,47,108,97,117,110,99,104>>
BuilderOutcomesUrl == <<104,116,116,112,58,47,47,108,111,99,97,108,104,111,115,116,58,56,48,48,48,47,111,117,116,99,111,109,101,115>>

BuilderInit ==
    /\ SysInit
    /\ pc = "start"
    /\ inp \in [tool : BuilderTools, course : BuilderCourses, user : BuilderUsers,
                resource_link_id : BuilderLinks, custom_params : BuilderCustom]
    /\ out = Raised

BuildLaunch ==
    /\ pc = "start"
    /\ out' = build_lti_launch_params(inp.tool, inp.course, inp.user,
                  inp.resource_link_id, <<65,99,116,105,118,105,116,121>>, BuilderLaunchUrl,
                  BuilderOutcomesUrl, inp.custom_params,
                  IntToStr(now), uuid4(2, uuid_ctr.nonce))
    /\ pc' = "built"
    /\ UNCHANGED <<inp, sysvars>>

BuilderNext == BuildLaunch

SpecBuilder == BuilderInit /\ [][BuilderNext]_vars

\* C9: in every LaunchRequest the builder returns, oauth_signature is the
\* last key, and its value is the signature of POST, the launch URL and all
\* the other parameters of the returned mapping (fixed and custom) under the
\* tool's consumer secret: nothing is added or changed after signing.
C9_SignatureLastOverAll ==
    (pc = "built" /\ out.ok) =>
        /\ out.val[Len(out.val)][1] = oauth_signature
        /\ IsDict(out.val)
        /\ out.val[Len(out.val)][2] =
              generate_oauth_signature(Txt.POST, BuilderLaunchUrl,
                  SubSeq(out.val, 1, Len(out.val) - 1), inp.tool.consumer_secret)

C9_Witness ==
    /\ pc = "built"
    /\ out.ok
    /\ Len(inp.custom_params) = 2
    /\ Len(out.val) = 32
    /\ out.val[32][1] = oauth_signature

\* The collaborator fields the builder needs, as text.
RequiredFields(i) ==
    {i.tool.consumer_key, i.tool.consumer_secret, i.course.code, i.course.name,
     i.user.name, i.user.email, i.user.role, i.resource_link_id}

\* C10: a call with a required collaborator field missing or empty fails and
\* returns no LaunchRequest, and no returned LaunchRequest carries an empty
\* value for such a field.
C10_RequiredFieldsValidated ==
    (pc = "built") =>
        /\ (Missing \in RequiredFields(inp) \/ <<>> \in RequiredFields(inp)) => ~out.ok
        /\ out.ok =>
              \A k \in {K.oauth_consumer_key, K.context_label, K.context_title,
                        K.lis_person_name_full, K.lis_person_contact_email_primary,
                        K.resource_link_id, K.user_id, K.context_id} :
                  DictGet(out.val, k, <<>>) # <<>>

-----------------------------------------------------------------------------
(***************************************************************************)
(* SpecRetry: build_lti_launch_params called again and again on the same   *)
(* arguments, as a retry of the same logical launch calls it.  Each call   *)
(* reads the clock and draws its nonce.                                    *)
(***************************************************************************)
RetryInit ==
    /\ SysInit
    /\ pc = "retry"
    /\ inp \in [tool : BuilderTools, course : BuilderCourses, user : BuilderUsers,
                resource_link_id : BuilderLinks, custom_params : BuilderCustom]
    /\ out = <<>>

BuildRetry ==
    /\ pc = "retry"
    /\ Len(out) < MaxBuilds
    /\ \E timestamp \in now..MaxClock :
          /\ out' = Append(out,
                 build_lti_launch_params(inp.tool, inp.course, inp.user,
                     inp.resource_link_id, <<65,99,116,105,118,105,116,121>>, BuilderLaunchUrl,
                     BuilderOutcomesUrl, inp.custom_params,
                     IntToStr(timestamp), uuid4(2, uuid_ctr.nonce)))
          /\ now' = timestamp
    /\ uuid_ctr' = [uuid_ctr EXCEPT !.nonce = @ + 1]
    /\ UNCHANGED <<tool_servers, tools, course_tools, launch_logs, grade_results,
                   launches, forms, response, posts, sqlite_sequence, pc, inp>>

RetryNext == BuildRetry

SpecRetry == RetryInit /\ [][RetryNext]_vars

\* C11: any two calls of the builder, on the same arguments and in the same
\* second too, return different oauth_nonce values, so no two LaunchRequests
\* carry the same pair of oauth_nonce and oauth_signature.
C11_NoncesDiffer ==
    pc = "retry" =>
        \A i \in 1..Len(out) : \A j \in (i + 1)..Len(out) :
            (out[i].ok /\ out[j].ok) =>
                /\ DictGet(out[i].val, K.oauth_nonce, None)
                     # DictGet(out[j].val, K.oauth_nonce, None)
                /\ <<DictGet(out[i].val, K.oauth_nonce, None),
                     DictGet(out[i].val, oauth_signature, None)>>
                     # <<DictGet(out[j].val, K.oauth_nonce, None),
                         DictGet(out[j].val, oauth_signature, None)>>

\* Two calls on the same arguments in the same second returned two
\* LaunchRequests that differ in the nonce and in nothing else but the
\* signature.
C11_Witness ==
    /\ pc = "retry"
    /\ Len(out) = 2
    /\ out[1].ok
    /\ out[2].ok
    /\ DictGet(out[1].val, K.oauth_timestamp, None) = DictGet(out[2].val, K.oauth_timestamp, None)
    /\ DictGet(out[1].val, K.oauth_nonce, None) # DictGet(out[2].val, K.oauth_nonce, None)
    /\ \A k \in 1..Len(out[1].val) :
          out[1].val[k][1] \notin {K.oauth_nonce, oauth_signature}
              => out[1].val[k] = out[2].val[k]

-----------------------------------------------------------------------------
(***************************************************************************)
(* SpecPrincipal: direct calls of build_lti_launch_params for a tool and a *)
(* course that are well formed, on users of any name and role and on       *)
(* custom parameters of any key.                                           *)
(***************************************************************************)

\* "Diana Prince", "Madonna", " Madonna " (blanks around one token),
\* "Mary  Jane<TAB>Watson" (two blanks, a tab), "" and "  " (no token).
PrincipalNames ==
    { <<68,105,97,110,97,32,80,114,105,110,99,101>>,
      <<77,97,100,111,110,110,97>>,
      <<32,77,97,100,111,110,110,97,32>>,
      <<77,97,114,121,32,32,74,97,110,101,9,87,97,116,115,111,110>>,
      <<>>,
      <<32,32>> }

\* "teacher", "student", "Teacher", "teacher " (a blank after it), "admin", "".
PrincipalRoles ==
    { Txt.teacher, Txt.student, <<84,101,97,99,104,101,114>>,
      <<116,101,97,99,104,101,114,32>>, <<97,100,109,105,110>>, <<>> }

\* None (the empty dict), {"a": "1"}, {"custom_b": "2"},
\* {"a": "1", "custom_a": "2"}, {"custom_": "x", "Custom_c": "3"}.
PrincipalCustom ==
    { <<>>,
      << <<<<97>>, <<49>>>> >>,
      << <<<<99,117,115,116,111,109,95,98>>, <<50>>>> >>,
      << <<<<97>>, <<49>>>>, <<<<99,117,115,116,111,109,95,97>>, <<50>>>> >>,
      << <<<<99,117,115,116,111,109,95>>, <<120>>>>, <<<<67,117,115,116,111,109,95,99>>, <<51>>>> >> }

PrincipalInit ==
    /\ SysInit
    /\ pc = "start"
    /\ inp \in [tool : {[consumer_key |-> <<116,101,115,116,95,107,101,121>>,
                         consumer_secret |-> <<116,101,115,116,95,115,101,99,114,101,116>>]},
                course : {[id |-> 1, code |-> <<67,83,49,48,49>>, name |-> <<73,110,116,114,111,100,117,99,116,105,111,110,32,116,111,32,80,121,116,104,111,110>>]},
                user : [id : {4}, name : PrincipalNames,
                        email : {<<100,105,97,110,97,46,112,114,105,110,99,101,64,101,120,97,109,112,108,101,46,101,100,117>>},
                        role : PrincipalRoles],
                resource_link_id : {<<114,108,45,49>>},
                custom_params : PrincipalCustom]
    /\ out = Raised

SpecPrincipal == PrincipalInit /\ [][BuilderNext]_vars

\* C18: the LaunchRequest has roles "Instructor" when the user's role is
\* "teacher" and "Learner" for every other role.
C18_RoleMapping ==
    (pc = "built" /\ out.ok) =>
        /\ inp.user.role = <<116,101,97,99,104,101,114>>
              => DictGet(out.val, K.roles, None) = <<73,110,115,116,114,117,99,116,111,114>>
        /\ inp.user.role # <<116,101,97,99,104,101,114>>
              => DictGet(out.val, K.roles, None) = <<76,101,97,114,110,101,114>>

\* The role "admin" was mapped to "Learner".
C18_Witness ==
    /\ pc = "built"
    /\ out.ok
    /\ inp.user.role = <<97,100,109,105,110>>
    /\ DictGet(out.val, K.roles, None) = <<76,101,97,114,110,101,114>>

\* The whitespace-delimited tokens of s from position i on, cur being the
\* token read so far.
RECURSIVE Tokens(_, _, _)
Tokens(s, i, cur) ==
    IF i > Len(s) THEN (IF cur = <<>> THEN <<>> ELSE <<cur>>)
    ELSE IF IsSpace(s[i])
    THEN (IF cur = <<>> THEN <<>> ELSE <<cur>>) \o Tokens(s, i + 1, <<>>)
    ELSE Tokens(s, i + 1, Append(cur, s[i]))

\* C19: lis_person_name_given is the first whitespace-delimited token of the
\* user's name, lis_person_name_family is the other tokens joined by single
\* blanks, and the full name when the name has one token.
C19_NameSplit ==
    (pc = "built" /\ out.ok) =>
        \A tokens \in {Tokens(inp.user.name, 1, <<>>)} :
            /\ tokens # <<>>
            /\ DictGet(out.val, K.lis_person_name_given, None) = tokens[1]
            /\ Len(tokens) = 1
                  => DictGet(out.val, K.lis_person_name_family, None) = inp.user.name
            /\ Len(tokens) > 1
                  => DictGet(out.val, K.lis_person_name_family, None)
                        = Join(<<32>>, Tail(tokens))

\* "Madonna" gave given = family = "Madonna".
C19_Witness ==
    /\ pc = "built"
    /\ out.ok
    /\ inp.user.name = <<77,97,100,111,110,110,97>>
    /\ DictGet(out.val, K.lis_person_name_given, None) = <<77,97,100,111,110,110,97>>
    /\ DictGet(out.val, K.lis_person_name_family, None) = <<77,97,100,111,110,110,97>>

\* C20: for every custom parameter (k, v) passed to the builder the
\* LaunchRequest holds v under k when k starts with "custom_" and under
\* "custom_" + k otherwise, and no key that starts with "custom_" is
\* prefixed again.
C20_CustomParamsPresent ==
    (pc = "built" /\ out.ok) =>
        \A i \in 1..Len(inp.custom_params) :
            \A k \in {inp.custom_params[i][1]}, v \in {inp.custom_params[i][2]} :
                /\ StartsWith(k, <<99,117,115,116,111,109,95>>)
                      => /\ DictGet(out.val, k, None) = v
                         /\ ~DictHas(out.val, <<99,117,115,116,111,109,95>> \o k)
                /\ ~StartsWith(k, <<99,117,115,116,111,109,95>>)
                      => DictGet(out.val, <<99,117,115,116,111,109,95>> \o k, None) = v

\* The LaunchRequest the same call returns when no custom parameter is given.
BuiltWithoutCustom ==
    build_lti_launch_params(inp.tool, inp.course, inp.user, inp.resource_link_id,
        <<65,99,116,105,118,105,116,121>>, BuilderLaunchUrl, BuilderOutcomesUrl, <<>>,
        IntToStr(now), uuid4(2, uuid_ctr.nonce)).val

\* C29: custom parameters neither overwrite nor remove a fixed parameter:
\* every parameter of the request built without custom parameters, other
\* than oauth_signature, is in the request at the same place with the same
\* value, every further key but oauth_signature starts with "custom_", and
\* oauth_signature holds the computed signature, never a custom value.
C29_FixedParamsKept ==
    (pc = "built" /\ out.ok) =>
        /\ \A i \in 1..(Len(BuiltWithoutCustom) - 1) : out.val[i] = BuiltWithoutCustom[i]
        /\ \A i \in Len(BuiltWithoutCustom)..(Len(out.val) - 1) :
              StartsWith(out.val[i][1], <<99,117,115,116,111,109,95>>)
        /\ \A i \in 1..Len(inp.custom_params) :
              DictGet(out.val, oauth_signature, None) # inp.custom_params[i][2]
        /\ DictGet(out.val, oauth_signature, None) =
              generate_oauth_signature(<<80,79,83,84>>, BuilderLaunchUrl,
                  DictWithout(out.val, oauth_signature), inp.tool.consumer_secret)

\* Custom parameters named oauth_signature and lti_version were passed and
\* are in the request under custom_oauth_signature and custom_lti_version.
C29_Witness ==
    /\ pc = "built"
    /\ out.ok
    /\ \/ /\ DictGet(inp.custom_params, oauth_signature, None) = <<120>>
          /\ DictGet(out.val, <<99,117,115,116,111,109,95>> \o oauth_signature, None) = <<120>>
       \/ /\ DictHas(inp.custom_params, <<108,116,105,95,118,101,114,115,105,111,110>>)
          /\ DictGet(out.val, <<108,116,105,95,118,101,114,115,105,111,110>>, None)
                = <<76,84,73,45,49,112,48>>

-----------------------------------------------------------------------------
(***************************************************************************)
(* The platform database: seed data, column affinity, AUTOINCREMENT.       *)
(***************************************************************************)

\* Table users as seed_demo_data fills it; no handler changes it.
users == <<
    [id |-> 1, name |-> <<68,114,46,32,65,108,105,99,101,32,83,109,105,116,104>>, email |-> <<97,108,105,99,101,46,115,109,105,116,104,64,101,120,97,109,112,108,101,46,101,100,117>>, role |-> Txt.teacher],
    [id |-> 2, name |-> <<80,114,111,102,46,32,66,111,98,32,74,111,104,110,115,111,110>>, email |-> <<98,111,98,46,106,111,104,110,115,111,110,64,101,120,97,109,112,108,101,46,101,100,117>>, role |-> Txt.teacher],
    [id |-> 3, name |-> <<67,104,97,114,108,105,101,32,66,114,111,119,110>>, email |-> <<99,104,97,114,108,105,101,46,98,114,111,119,110,64,101,120,97,109,112,108,101,46,101,100,117>>, role |-> Txt.student],
    [id |-> 4, name |-> <<68,105,97,110,97,32,80,114,105,110,99,101>>, email |-> <<100,105,97,110,97,46,112,114,105,110,99,101,64,101,120,97,109,112,108,101,46,101,100,117>>, role |-> Txt.student],
    [id |-> 5, name |-> <<69,100,119,97,114,100,32,78,111,114,116,111,110>>, email |-> <<101,100,119,97,114,100,46,110,111,114,116,111,110,64,101,120,97,109,112,108,101,46,101,100,117>>, role |-> Txt.student],
    [id |-> 6, name |-> <<70,105,111,110,97,32,71,114,101,101,110>>, email |-> <<102,105,111,110,97,46,103,114,101,101,110,64,101,120,97,109,112,108,101,46,101,100,117>>, role |-> Txt.student] >>

\* Table courses as seed_demo_data fills it; no handler changes it.
courses == <<
    [id |-> 1, name |-> <<73,110,116,114,111,100,117,99,116,105,111,110,32,116,111,32,80,121,116,104,111,110>>, code |-> <<67,83,49,48,49>>],
    [id |-> 2, name |-> <<87,101,98,32,68,101,118,101,108,111,112,109,101,110,116>>, code |-> <<87,69,66,50,48,49>>],
    [id |-> 3, name |-> <<68,97,116,97,32,83,99,105,101,110,99,101,32,70,117,110,100,97,109,101,110,116,97,108,115>>, code |-> <<68,83,51,48,49>>] >>

\* The rows of a table that satisfy a condition, in rowid order.
Rows(table, Cond(_)) == SelectSeq(table, Cond)

\* Whitespace SQLite skips around a numeric literal.
SqlSpace(c) == c \in {9, 10, 11, 12, 13, 32}

IsDigit(c) == c \in 48..57

\* The number a sequence of decimal digits denotes; 0 for none.
RECURSIVE DigitsValue(_)
DigitsValue(ds) ==
    IF ds = <<>> THEN 0
    ELSE 10 * DigitsValue(SubSeq(ds, 1, Len(ds) - 1)) + (ds[Len(ds)] - 48)

\* text without the characters at both ends that satisfy Sp.
Strip(text, Sp(_)) ==
    LET keep == {i \in 1..Len(text) : ~Sp(text[i])}
    IN  IF keep = {} THEN <<>>
        ELSE SubSeq(text, CHOOSE i \in keep : \A j \in keep : i <= j,
                          CHOOSE i \in keep : \A j \in keep : i >= j)

\* A text value bound to a column of INTEGER affinity, for storing and for
\* comparing: text that is a well-formed integer literal (digits, with an
\* optional sign, whitespace around it ignored) becomes that integer, other
\* text stays text.  (Real literals such as '1.0' are not modelled; no text
\* of the model holds one in an id field.)
sql_integer(text) ==
    LET t == Strip(text, SqlSpace)
        signed == t # <<>> /\ t[1] \in {43, 45}
        ds == IF signed THEN Tail(t) ELSE t
    IN  IF ds # <<>> /\ \A i \in 1..Len(ds) : IsDigit(ds[i])
        THEN [isint |-> TRUE,
              n |-> IF signed /\ t[1] = 45 THEN 0 - DigitsValue(ds) ELSE DigitsValue(ds),
              text |-> <<>>]
        ELSE [isint |-> FALSE, n |-> 0, text |-> text]

\* An INTEGER value as a column holds it.
sql_int(n) == [isint |-> TRUE, n |-> n, text |-> <<>>]

-----------------------------------------------------------------------------
(***************************************************************************)
(* The outcomes endpoint: receive_outcome (src/app.py).                    *)
(***************************************************************************)

\* text matches pat at position i.
MatchAt(text, i, pat) ==
    /\ i + Len(pat) - 1 <= Len(text)
    /\ \A j \in 1..Len(pat) : text[i + j - 1] = pat[j]

\* The first position >= s of text that holds "<", Len(text) + 1 if none.
NextLt(text, s) ==
    IF \E e \in s..Len(text) : text[e] = 60
    THEN CHOOSE e \in s..Len(text) :
            text[e] = 60 /\ \A j \in s..(e - 1) : text[j] # 60
    ELSE Len(text) + 1

\* re.search(open + "([^<]+)" + close, text): group(1) of the leftmost match,
\* None without a match.  The group is a maximal run of characters other
\* than "<", at least one, directly followed by close (which starts with
\* "<", so no shorter run can match).
re_search(open, close, text) ==
    LET hits == {i \in 1..Len(text) :
                    /\ MatchAt(text, i, open)
                    /\ LET s == i + Len(open)
                           e == NextLt(text, s)
                       IN  e > s /\ MatchAt(text, e, close)}
    IN  IF hits = {} THEN None
        ELSE LET i == CHOOSE h \in hits : \A g \in hits : h <= g
                 s == i + Len(open)
             IN  SubSeq(text, s, NextLt(text, s) - 1)

\* A float: n / 10^e, without trailing zeros in the fraction.
RECURSIVE Normal(_)
Normal(v) ==
    IF v.e > 0 /\ v.n % 10 = 0 THEN Normal([n |-> v.n \div 10, e |-> v.e - 1])
    ELSE v

\* The floats that are no number of the form n / 10^e: the infinities and
\* NaN.
Infinity(sign) == [inf |-> sign]
NaN == [nan |-> TRUE]

\* math.isfinite(v)
IsFinite(v) == "n" \in DOMAIN v

\* str.lower()
lower(s) == [i \in 1..Len(s) |-> IF s[i] \in 65..90 THEN s[i] + 32 ELSE s[i]]

\* float(text): whitespace around the literal is ignored; the literal is an
\* optional sign and decimal digits with an optional point, at least one
\* digit, or an optional sign and "inf", "infinity" or "nan" in any case.
\* Anything else raises ValueError.  (Exponents and "_" are not modelled;
\* no score text of the model holds them.)
float(text) ==
    LET t == Strip(text, IsSpace)
        signed == t # <<>> /\ t[1] \in {43, 45}
        u == IF signed THEN Tail(t) ELSE t
        dots == {i \in 1..Len(u) : u[i] = 46}
        dot == IF dots = {} THEN Len(u) + 1 ELSE CHOOSE i \in dots : TRUE
        int == SubSeq(u, 1, dot - 1)
        frac == SubSeq(u, dot + 1, Len(u))
        mag == DigitsValue(int \o frac)
    IN  IF lower(u) \in {<<105,110,102>>, <<105,110,102,105,110,105,116,121>>}
        THEN Returned(Infinity(IF signed /\ t[1] = 45 THEN -1 ELSE 1))
        ELSE IF lower(u) = <<110,97,110>>
        THEN Returned(NaN)
        ELSE IF /\ Cardinality(dots) <= 1
                /\ int \o frac # <<>>
                /\ \A i \in 1..Len(int \o frac) : IsDigit((int \o frac)[i])
        THEN Returned(Normal([n |-> IF signed /\ t[1] = 45 THEN 0 - mag ELSE mag,
                              e |-> Len(frac)]))
        ELSE Raised

\* The f-string of xml_payload (send_grade), cut at {message_id}, {sourced_id}
\* and {score}.
xml_payload_text == <<
    <<60,63,120,109,108,32,118,101,114,115,105,111,110,61,34,49,46,48,34,32,101,110,99,111,
      100,105,110,103,61,34,85,84,70,45,56,34,63,62,10,60,105,109,115,120,95,80,79,88,
      69,110,118,101,108,111,112,101,82,101,113,117,101,115,116,32,120,109,108,110,115,61,34,104,
      116,116,112,58,47,47,119,119,119,46,105,109,115,103,108,111,98,97,108,46,111,114,103,47,
      115,101,114,118,105,99,101,115,47,108,116,105,118,49,112,49,47,120,115,100,47,105,109,115,
      111,109,115,95,118,49,112,48,34,62,10,32,32,60,105,109,115,120,95,80,79,88,72,101,
      97,100,101,114,62,10,32,32,32,32,60,105,109,115,120,95,80,79,88,82,101,113,117,101,
      115,116,72,101,97,100,101,114,73,110,102,111,62,10,32,32,32,32,32,32,60,105,109,115,
      120,95,118,101,114,115,105,111,110,62,86,49,46,48,60,47,105,109,115,120,95,118,101,114,
      115,105,111,110,62,10,32,32,32,32,32,32,60,105,109,115,120,95,109,101,115,115,97,103,
      101,73,100,101,110,116,105,102,105,101,114,62>>,
    <<60,47,105,109,115,120,95,109,101,115,115,97,103,101,73,100,101,110,116,105,102,105,101,114,
      62,10,32,32,32,32,60,47,105,109,115,120,95,80,79,88,82,101,113,117,101,115,116,72,
      101,97,100,101,114,73,110,102,111,62,10,32,32,60,47,105,109,115,120,95,80,79,88,72,
      101,97,100,101,114,62,10,32,32,60,105,109,115,120,95,80,79,88,66,111,100,121,62,10,
      32,32,32,32,60,114,101,112,108,97,99,101,82,101,115,117,108,116,82,101,113,117,101,115,
      116,62,10,32,32,32,32,32,32,60,114,101,115,117,108,116,82,101,99,111,114,100,62,10,
      32,32,32,32,32,32,32,32,60,115,111,117,114,99,101,100,71,85,73,68,62,10,32,32,
      32,32,32,32,32,32,32,32,60,115,111,117,114,99,101,100,73,100,62>>,
    <<60,47,115,111,117,114,99,101,100,73,100,62,10,32,32,32,32,32,32,32,32,60,47,115,
      111,117,114,99,101,100,71,85,73,68,62,10,32,32,32,32,32,32,32,32,60,114,101,115,
      117,108,116,62,10,32,32,32,32,32,32,32,32,32,32,60,114,101,115,117,108,116,83,99,
      111,114,101,62,10,32,32,32,32,32,32,32,32,32,32,32,32,60,108,97,110,103,117,97,
      103,101,62,101,110,60,47,108,97,110,103,117,97,103,101,62,10,32,32,32,32,32,32,32,
      32,32,32,32,32,60,116,101,120,116,83,116,114,105,110,103,62>>,
    <<60,47,116,101,120,116,83,116,114,105,110,103,62,10,32,32,32,32,32,32,32,32,32,32,
      60,47,114,101,115,117,108,116,83,99,111,114,101,62,10,32,32,32,32,32,32,32,32,60,
      47,114,101,115,117,108,116,62,10,32,32,32,32,32,32,60,47,114,101,115,117,108,116,82,
      101,99,111,114,100,62,10,32,32,32,32,60,47,114,101,112,108,97,99,101,82,101,115,117,
      108,116,82,101,113,117,101,115,116,62,10,32,32,60,47,105,109,115,120,95,80,79,88,66,
      111,100,121,62,10,60,47,105,109,115,120,95,80,79,88,69,110,118,101,108,111,112,101,82,
      101,113,117,101,115,116,62>> >>

\* The f-string of response_xml (receive_outcome), cut at the two {msg_id}.
response_xml_text == <<
    <<60,63,120,109,108,32,118,101,114,115,105,111,110,61,34,49,46,48,34,32,101,110,99,111,
      100,105,110,103,61,34,85,84,70,45,56,34,63,62,10,60,105,109,115,120,95,80,79,88,
      69,110,118,101,108,111,112,101,82,101,115,112,111,110,115,101,32,120,109,108,110,115,61,34,
      104,116,116,112,58,47,47,119,119,119,46,105,109,115,103,108,111,98,97,108,46,111,114,103,
      47,115,101,114,118,105,99,101,115,47,108,116,105,118,49,112,49,47,120,115,100,47,105,109,
      115,111,109,115,95,118,49,112,48,34,62,10,32,32,60,105,109,115,120,95,80,79,88,72,
      101,97,100,101,114,62,10,32,32,32,32,60,105,109,115,120,95,80,79,88,82,101,115,112,
      111,110,115,101,72,101,97,100,101,114,73,110,102,111,62,10,32,32,32,32,32,32,60,105,
      109,115,120,95,118,101,114,115,105,111,110,62,86,49,46,48,60,47,105,109,115,120,95,118,
      101,114,115,105,111,110,62,10,32,32,32,32,32,32,60,105,109,115,120,95,109,101,115,115,
      97,103,101,73,100,101,110,116,105,102,105,101,114,62>>,
    <<60,47,105,109,115,120,95,109,101,115,115,97,103,101,73,100,101,110,116,105,102,105,101,114,
      62,10,32,32,32,32,32,32,60,105,109,115,120,95,115,116,97,116,117,115,73,110,102,111,
      62,10,32,32,32,32,32,32,32,32,60,105,109,115,120,95,99,111,100,101,77,97,106,111,
      114,62,115,117,99,99,101,115,115,60,47,105,109,115,120,95,99,111,100,101,77,97,106,111,
      114,62,10,32,32,32,32,32,32,32,32,60,105,109,115,120,95,115,101,118,101,114,105,116,
      121,62,115,116,97,116,117,115,60,47,105,109,115,120,95,115,101,118,101,114,105,116,121,62,
      10,32,32,32,32,32,32,32,32,60,105,109,115,120,95,100,101,115,99,114,105,112,116,105,
      111,110,62,83,99,111,114,101,32,114,101,99,101,105,118,101,100,60,47,105,109,115,120,95,
      100,101,115,99,114,105,112,116,105,111,110,62,10,32,32,32,32,32,32,32,32,60,105,109,
      115,120,95,109,101,115,115,97,103,101,82,101,102,73,100,101,110,116,105,102,105,101,114,62>>,
    <<60,47,105,109,115,120,95,109,101,115,115,97,103,101,82,101,102,73,100,101,110,116,105,102,
      105,101,114,62,10,32,32,32,32,32,32,32,32,60,105,109,115,120,95,111,112,101,114,97,
      116,105,111,110,82,101,102,73,100,101,110,116,105,102,105,101,114,62,114,101,112,108,97,99,
      101,82,101,115,117,108,116,60,47,105,109,115,120,95,111,112,101,114,97,116,105,111,110,82,
      101,102,73,100,101,110,116,105,102,105,101,114,62,10,32,32,32,32,32,32,60,47,105,109,
      115,120,95,115,116,97,116,117,115,73,110,102,111,62,10,32,32,32,32,60,47,105,109,115,
      120,95,80,79,88,82,101,115,112,111,110,115,101,72,101,97,100,101,114,73,110,102,111,62,
      10,32,32,60,47,105,109,115,120,95,80,79,88,72,101,97,100,101,114,62,10,32,32,60,
      105,109,115,120,95,80,79,88,66,111,100,121,62,10,32,32,32,32,60,114,101,112,108,97,
      99,101,82,101,115,117,108,116,82,101,115,112,111,110,115,101,47,62,10,32,32,60,47,105,
      109,115,120,95,80,79,88,66,111,100,121,62,10,60,47,105,109,115,120,95,80,79,88,69,
      110,118,101,108,111,112,101,82,101,115,112,111,110,115,101,62>> >>

\* The literal tags receive_outcome searches for.
Tag == [
    sourcedId |-> <<60,115,111,117,114,99,101,100,73,100,62>>,
    sourcedId_end |-> <<60,47,115,111,117,114,99,101,100,73,100,62>>,
    textString |-> <<60,116,101,120,116,83,116,114,105,110,103,62>>,
    textString_end |-> <<60,47,116,101,120,116,83,116,114,105,110,103,62>>,
    messageIdentifier |-> <<60,105,109,115,120,95,109,101,115,115,97,103,101,73,100,101,110,116,105,102,105,101,114,62>>,
    messageIdentifier_end |-> <<60,47,105,109,115,120,95,109,101,115,115,97,103,101,73,100,101,110,116,105,102,105,101,114,62>>,
    messageRefIdentifier |-> <<60,105,109,115,120,95,109,101,115,115,97,103,101,82,101,102,73,100,101,110,116,105,102,105,101,114,62>>,
    messageRefIdentifier_end |-> <<60,47,105,109,115,120,95,109,101,115,115,97,103,101,82,101,102,73,100,101,110,116,105,102,105,101,114,62>>,
    codeMajor |-> <<60,105,109,115,120,95,99,111,100,101,77,97,106,111,114,62>>,
    codeMajor_end |-> <<60,47,105,109,115,120,95,99,111,100,101,77,97,106,111,114,62>> ]

\* response_xml
response_xml(msg_id) ==
    response_xml_text[1] \o msg_id \o response_xml_text[2] \o msg_id \o response_xml_text[3]

\* The answer of the framework to an exception no handler caught.
InternalServerError ==
    [status |-> 500, body |-> <<73,110,116,101,114,110,97,108,32,83,101,114,118,101,114,32,69,114,114,111,114>>, page |-> "error"]

\* A value that a handler uses more than once is bound by a quantifier over
\* a one-element set, so that it is computed once.

\* The try block without "if ct:": a sourced id of three fields is stored
\* whether or not it names a course tool (course_tool_id NULL if not).
outcome_rows_unlinked(sourced_id, score, body_text) ==
    \E decoded \in {decode_sourced_id(sourced_id)} :
        IF ~decoded.ok \/ Len(decoded.val) # 3
        THEN UNCHANGED <<grade_results, sqlite_sequence>>
        ELSE \E found \in {Rows(course_tools, LAMBDA r :
                              /\ sql_int(r.course_id) = sql_integer(decoded.val[1])
                              /\ r.resource_link_id = decoded.val[2])} :
                /\ grade_results' = Append(grade_results,
                       [id |-> sqlite_sequence.grade_results + 1,
                        course_tool_id |-> IF found = <<>> THEN None ELSE found[1].id,
                        user_id |-> sql_integer(decoded.val[3]),
                        sourced_id |-> sourced_id,
                        score |-> score,
                        raw_xml |-> body_text])
                /\ sqlite_sequence' = [sqlite_sequence EXCEPT !.grade_results = @ + 1]

\* The try block as an upsert by sourced id: a row with the same sourced id
\* is replaced, not joined by a second one.
outcome_rows_upsert(sourced_id, score, body_text) ==
    \E decoded \in {decode_sourced_id(sourced_id)} :
        IF ~decoded.ok \/ Len(decoded.val) # 3
        THEN UNCHANGED <<grade_results, sqlite_sequence>>
        ELSE \E found \in {Rows(course_tools, LAMBDA r :
                              /\ sql_int(r.course_id) = sql_integer(decoded.val[1])
                              /\ r.resource_link_id = decoded.val[2])} :
                IF found = <<>>
                THEN UNCHANGED <<grade_results, sqlite_sequence>>
                ELSE /\ grade_results' = Append(
                            Rows(grade_results, LAMBDA g : g.sourced_id # sourced_id),
                            [id |-> sqlite_sequence.grade_results + 1,
                             course_tool_id |-> found[1].id,
                             user_id |-> sql_integer(decoded.val[3]),
                             sourced_id |-> sourced_id,
                             score |-> score,
                             raw_xml |-> body_text])
                     /\ sqlite_sequence' = [sqlite_sequence EXCEPT !.grade_results = @ + 1]

\* The try block with a check of the user: a grade is stored only for a
\* user id of the table users.
outcome_rows_known_user(sourced_id, score, body_text) ==
    \E decoded \in {decode_sourced_id(sourced_id)} :
        IF ~decoded.ok \/ Len(decoded.val) # 3
        THEN UNCHANGED <<grade_results, sqlite_sequence>>
        ELSE \E found \in {Rows(course_tools, LAMBDA r :
                              /\ sql_int(r.course_id) = sql_integer(decoded.val[1])
                              /\ r.resource_link_id = decoded.val[2])} :
                IF found = <<>> \/ \A u \in 1..Len(users) : sql_int(users[u].id) # sql_integer(decoded.val[3])
                THEN UNCHANGED <<grade_results, sqlite_sequence>>
                ELSE /\ grade_results' = Append(grade_results,
                            [id |-> sqlite_sequence.grade_results + 1,
                             course_tool_id |-> found[1].id,
                             user_id |-> sql_integer(decoded.val[3]),
                             sourced_id |-> sourced_id,
                             score |-> score,
                             raw_xml |-> body_text])
                     /\ sqlite_sequence' = [sqlite_sequence EXCEPT !.grade_results = @ + 1]

\* The try block of receive_outcome: the sourced id is decoded and split;
\* with three parts, the first course_tools row of the course and resource
\* link is selected; with a row, the grade is inserted under the next
\* AUTOINCREMENT id.  Whatever is raised in the block is dropped.
outcome_rows(sourced_id, score, body_text) ==
    \E decoded \in {decode_sourced_id(sourced_id)} :
        IF ~decoded.ok \/ Len(decoded.val) # 3
        THEN UNCHANGED <<grade_results, sqlite_sequence>>
        ELSE \E found \in {Rows(course_tools, LAMBDA r :
                              /\ sql_int(r.course_id) = sql_integer(decoded.val[1])
                              /\ r.resource_link_id = decoded.val[2])} :
                IF found = <<>>
                THEN UNCHANGED <<grade_results, sqlite_sequence>>
                ELSE /\ grade_results' = Append(grade_results,
                            [id |-> sqlite_sequence.grade_results + 1,
                             course_tool_id |-> found[1].id,
                             user_id |-> sql_integer(decoded.val[3]),
                             sourced_id |-> sourced_id,
                             score |-> score,
                             raw_xml |-> body_text])
                     /\ sqlite_sequence' = [sqlite_sequence EXCEPT !.grade_results = @ + 1]

\* receive_outcome on the request body body_text.  The request and its
\* response are recorded in posts: launch_id and url say who sent it where.
\* fresh is the uuid4 a request without message identifier is answered
\* with.  float() is called outside the try block: when it raises, the
\* framework answers 500 and nothing else happens.
receive_outcome(body_text, launch_id, url, fresh) ==
    \E sourced_id \in {re_search(Tag.sourcedId, Tag.sourcedId_end, body_text)},
       score_match \in {re_search(Tag.textString, Tag.textString_end, body_text)},
       msg_id_match \in {re_search(Tag.messageIdentifier, Tag.messageIdentifier_end, body_text)} :
    \E score \in {IF score_match # None THEN float(score_match) ELSE Returned(None)},
       msg_id \in {IF msg_id_match # None THEN msg_id_match ELSE fresh} :
        IF ~score.ok
        THEN /\ posts' = Append(posts,
                    [launch_id |-> launch_id, url |-> url, body |-> body_text,
                     reply |-> InternalServerError])
             /\ UNCHANGED <<grade_results, sqlite_sequence>>
        ELSE /\ IF sourced_id # None /\ score_match # None
                THEN outcome_rows(sourced_id, score.val, body_text)
                ELSE UNCHANGED <<grade_results, sqlite_sequence>>
             /\ posts' = Append(posts,
                    [launch_id |-> launch_id, url |-> url, body |-> body_text,
                     reply |-> [status |-> 200, body |-> response_xml(msg_id),
                                page |-> "xml"]])

-----------------------------------------------------------------------------
(***************************************************************************)
(* The handlers of the platform (src/app.py).                              *)
(***************************************************************************)

\* A response that is an HTML page or a redirect; the markup is not modelled.
Page(status, name) == [status |-> status, body |-> <<>>, page |-> name]

\* The base URL the platform is reached at, and its outcomes endpoint.
PlatformBaseUrl == <<104,116,116,112,58,47,47,108,111,99,97,108,104,111,115,116,58,56,48,48,48>>
PlatformOutcomesUrl == PlatformBaseUrl \o <<47,111,117,116,99,111,109,101,115>>

\* The column custom_params of a tool: NULL, or JSON text.  json.loads is
\* modelled by its result: text that does not parse ("invalid"), a JSON
\* object of strings ("dict", val its items in order), or another truthy
\* JSON value ("nondict").
NullParams == [kind |-> "null", val |-> <<>>]
CustomParamsInputs ==
    { NullParams,
      [kind |-> "invalid", val |-> <<>>],
      [kind |-> "dict", val |-> << <<<<108,101,118,101,108>>, <<50>>>> >>] }

\* POST /tool-servers/add
add_tool_server(domain, port) ==
    /\ sqlite_sequence.tool_servers < MaxServers
    /\ tool_servers' = Append(tool_servers,
           [id |-> sqlite_sequence.tool_servers + 1, domain |-> domain, port |-> port])
    /\ sqlite_sequence' = [sqlite_sequence EXCEPT !.tool_servers = @ + 1]
    /\ response' = Page(303, "/tool-servers")
    /\ UNCHANGED <<tools, course_tools, launch_logs, grade_results,
                   launches, forms, posts, uuid_ctr, now, callvars>>

\* POST /tools/add
add_tool(name, tool_server_id, launch_path, consumer_key, consumer_secret, custom_params, launch_url_override) ==
    /\ sqlite_sequence.tools < MaxTools
    /\ tools' = Append(tools,
           [id |-> sqlite_sequence.tools + 1,
            tool_server_id |-> tool_server_id,
            name |-> name,
            launch_path |-> launch_path,
            consumer_key |-> consumer_key,
            consumer_secret |-> consumer_secret,
            custom_params |-> custom_params,
            launch_url_override |-> IF launch_url_override # <<>> THEN launch_url_override ELSE None])
    /\ sqlite_sequence' = [sqlite_sequence EXCEPT !.tools = @ + 1]
    /\ response' = Page(303, "/tools")
    /\ UNCHANGED <<tool_servers, course_tools, launch_logs, grade_results,
                   launches, forms, posts, uuid_ctr, now, callvars>>

\* GET /tools/{tool_id}/delete.  Foreign keys are not enforced (the
\* connection never sets PRAGMA foreign_keys), so no other table changes.
delete_tool(tool_id) ==
    /\ tools' = Rows(tools, LAMBDA t : t.id # tool_id)
    /\ response' = Page(303, "/tools")
    /\ UNCHANGED <<tool_servers, course_tools, launch_logs, grade_results,
                   sqlite_sequence, launches, forms, posts, uuid_ctr, now, callvars>>

\* POST /courses/{course_id}/tools/add.  UNIQUE(course_id, tool_id) makes the
\* INSERT of a second association of the same pair fail (response 500).
add_tool_to_course(course_id, tool_id) ==
    /\ sqlite_sequence.course_tools < MaxCourseTools
    /\ LET resource_link_id == uuid4(1, uuid_ctr.resource_link_id)
           tool == Rows(tools, LAMBDA t : t.id = tool_id)
           resource_link_title == IF tool # <<>> THEN tool[1].name ELSE <<76,84,73,32,65,99,116,105,118,105,116,121>>
       IN  IF \E i \in 1..Len(course_tools) :
                 course_tools[i].course_id = course_id /\ course_tools[i].tool_id = tool_id
           THEN /\ response' = InternalServerError
                /\ UNCHANGED <<course_tools, sqlite_sequence, uuid_ctr>>
           ELSE /\ course_tools' = Append(course_tools,
                       [id |-> sqlite_sequence.course_tools + 1,
                        course_id |-> course_id,
                        tool_id |-> tool_id,
                        resource_link_id |-> resource_link_id,
                        resource_link_title |-> resource_link_title])
                /\ sqlite_sequence' = [sqlite_sequence EXCEPT !.course_tools = @ + 1]
                /\ response' = Page(303, "/courses")
                /\ uuid_ctr' = [uuid_ctr EXCEPT !.resource_link_id = @ + 1]
    /\ UNCHANGED <<tool_servers, tools, launch_logs, grade_results,
                   launches, forms, posts, now, callvars>>

\* GET /courses/{course_id}/tools/{course_tool_id}/remove
remove_tool_from_course(course_id, course_tool_id) ==
    /\ course_tools' = Rows(course_tools,
           LAMBDA r : ~(r.id = course_tool_id /\ r.course_id = course_id))
    /\ response' = Page(303, "/courses")
    /\ UNCHANGED <<tool_servers, tools, launch_logs, grade_results, sqlite_sequence,
                   launches, forms, posts, uuid_ctr, now, callvars>>

\* The value of an HTML attribute written as value="{v}" without escaping,
\* as the browser reads it back: the text before the first double quote.
html_attr(v) ==
    IF \E i \in 1..Len(v) : v[i] = 34
    THEN SubSeq(v, 1, (CHOOSE i \in 1..Len(v) : v[i] = 34 /\ \A j \in 1..(i - 1) : v[j] # 34) - 1)
    ELSE v

\* form_fields: one hidden input per parameter, in order.
form_fields(params) ==
    [i \in 1..Len(params) |-> <<html_attr(params[i][1]), html_attr(params[i][2])>>]

\* The joined row launch_tool selects for a course tool, <<>> if the course
\* tool, its tool, the tool's server or the course is not there.
launch_row(course_tool_id) ==
    LET ct == Rows(course_tools, LAMBDA r : r.id = course_tool_id)
        t == IF ct = <<>> THEN <<>> ELSE Rows(tools, LAMBDA r : r.id = ct[1].tool_id)
        ts == IF t = <<>> THEN <<>> ELSE Rows(tool_servers, LAMBDA r : r.id = t[1].tool_server_id)
        c == IF ct = <<>> THEN <<>> ELSE Rows(courses, LAMBDA r : r.id = ct[1].course_id)
    IN  IF ct = <<>> \/ t = <<>> \/ ts = <<>> \/ c = <<>> THEN <<>>
        ELSE << [ct |-> ct[1], tool |-> t[1], server |-> ts[1], course |-> c[1]] >>

\* launch_url of launch_tool: the override if set, else built from the server.
launch_url_of(row) ==
    IF row.tool.launch_url_override # None
    THEN row.tool.launch_url_override
    ELSE <<104,116,116,112,58,47,47>> \o row.server.domain \o <<58>> \o IntToStr(row.server.port)
             \o row.tool.launch_path

\* A log row that keeps the signed parameters in both columns.
launch_log_row_signed(id, course_tool_id, user_id, params) ==
    [id |-> id,
     course_tool_id |-> course_tool_id,
     user_id |-> user_id,
     launch_params |-> params,
     signed_params |-> params,
     oauth_signature |-> DictGet(params, oauth_signature, None)]

\* The row launch_tool inserts into launch_logs: params_without_sig, params
\* and params['oauth_signature'].
launch_log_row(id, course_tool_id, user_id, params) ==
    [id |-> id,
     course_tool_id |-> course_tool_id,
     user_id |-> user_id,
     launch_params |-> DictWithout(params, oauth_signature),
     signed_params |-> params,
     oauth_signature |-> DictGet(params, oauth_signature, None)]

\* GET /launch/{course_tool_id}?user_id=...  timestamp is what time.time()
\* reads when the parameters are built.
launch_tool(course_tool_id, user_id, timestamp) ==
    /\ sqlite_sequence.launch_logs < MaxLaunches
    /\ \E row \in {launch_row(course_tool_id)}, user \in {Rows(users, LAMBDA u : u.id = user_id)} :
        IF row = <<>> \/ user = <<>>
        THEN /\ response' = Page(404, "not found")
             /\ UNCHANGED <<launch_logs, sqlite_sequence, forms, uuid_ctr, now>>
        ELSE IF row[1].tool.custom_params.kind = "nondict"
        THEN /\ response' = InternalServerError
             /\ UNCHANGED <<launch_logs, sqlite_sequence, forms, uuid_ctr, now>>
        ELSE \E launch_url \in {launch_url_of(row[1])},
                tool \in {row[1].tool}, course \in {row[1].course}, ct \in {row[1].ct},
                custom_params \in {IF row[1].tool.custom_params.kind = "dict"
                                   THEN row[1].tool.custom_params.val ELSE <<>>},
                timestamp_text \in {IntToStr(timestamp)},
                nonce \in {uuid4(2, uuid_ctr.nonce)} :
             \E built \in {build_lti_launch_params(tool, course, user[1], ct.resource_link_id, ct.resource_link_title, launch_url, PlatformOutcomesUrl, custom_params, timestamp_text, nonce)} :
                /\ timestamp >= now
                /\ now' = timestamp
                /\ uuid_ctr' = [uuid_ctr EXCEPT !.nonce = @ + 1]
                /\ IF ~built.ok
                   THEN /\ response' = InternalServerError
                        /\ UNCHANGED <<launch_logs, sqlite_sequence, forms>>
                   ELSE /\ launch_logs' = Append(launch_logs,
                              launch_log_row(sqlite_sequence.launch_logs + 1,
                                             course_tool_id, user_id, built.val))
                        /\ sqlite_sequence' = [sqlite_sequence EXCEPT !.launch_logs = @ + 1]
                        /\ forms' = Append(forms,
                              [action |-> html_attr(launch_url),
                               fields |-> form_fields(built.val)])
                        /\ response' = Page(200, "launch form")
    /\ UNCHANGED <<tool_servers, tools, course_tools, grade_results,
                   launches, posts, callvars>>

\* A page with the values its template interpolates, one per line; the
\* markup around them is not modelled.
RenderedPage(name, values) == [status |-> 200, body |-> Join(<<10>>, values), page |-> name]

\* The JSON text of a mapping of strings, as json.dumps writes it.
json_dumps(d) ==
    <<123>> \o Join(<<44,32>>, [i \in 1..Len(d) |->
                  <<34>> \o d[i][1] \o <<34,58,32,34>> \o d[i][2] \o <<34>>]) \o <<125>>

\* The column custom_params as text: '' for NULL.
custom_params_text(c) ==
    IF c.kind = "null" THEN <<>>
    ELSE IF c.kind = "dict" THEN json_dumps(c.val)
    ELSE <<123>>

\* GET /tools/{tool_id}/edit: the form holds the columns of the tool as the
\* values of its inputs.
edit_tool_form(tool_id) ==
    /\ \E tool \in {Rows(tools, LAMBDA t : t.id = tool_id)} :
          IF tool = <<>>
          THEN response' = Page(404, "Tool not found")
          ELSE response' = RenderedPage("Edit Tool",
                   <<tool[1].name>>
                   \o [i \in 1..Len(tool_servers) |->
                          IntToStr(tool_servers[i].id) \o <<32>> \o tool_servers[i].domain
                              \o <<58>> \o IntToStr(tool_servers[i].port)]
                   \o <<tool[1].launch_path,
                        tool[1].consumer_key,
                        tool[1].consumer_secret,
                        custom_params_text(tool[1].custom_params),
                        IF tool[1].launch_url_override = None THEN <<>>
                        ELSE tool[1].launch_url_override>>)
    /\ UNCHANGED <<dbvars, launches, forms, posts, uuid_ctr, now, callvars>>

\* GET /launch-logs/{log_id}: the launch log joined with its user, course
\* tool, tool, tool server and course.
view_launch_log(log_id) ==
    /\ \E ll \in {Rows(launch_logs, LAMBDA l : l.id = log_id)} :
       \E u \in {IF ll = <<>> THEN <<>> ELSE Rows(users, LAMBDA r : r.id = ll[1].user_id)},
          row \in {IF ll = <<>> THEN <<>> ELSE launch_row(ll[1].course_tool_id)} :
          IF ll = <<>> \/ u = <<>> \/ row = <<>>
          THEN response' = Page(404, "Launch log not found")
          ELSE response' = RenderedPage("Launch Inspection",
                   <<row[1].course.name, row[1].course.code, row[1].tool.name,
                     <<104,116,116,112,58,47,47>> \o row[1].server.domain \o <<58>>
                         \o IntToStr(row[1].server.port) \o row[1].tool.launch_path,
                     u[1].name, u[1].role, u[1].email,
                     row[1].tool.consumer_key,
                     row[1].tool.consumer_secret,
                     ll[1].oauth_signature,
                     json_dumps(ll[1].launch_params),
                     json_dumps(ll[1].signed_params)>>)
    /\ UNCHANGED <<dbvars, launches, forms, posts, uuid_ctr, now, callvars>>

\* POST /outcomes sent by a client other than the sample tool.
post_outcome(body_text) ==
    /\ Len(posts) < MaxPosts
    /\ receive_outcome(body_text, None, PlatformOutcomesUrl, uuid4(5, uuid_ctr.msg_id))
    /\ response' = posts'[Len(posts')].reply
    /\ uuid_ctr' = [uuid_ctr EXCEPT !.msg_id = @ + 1]
    /\ UNCHANGED <<tool_servers, tools, course_tools, launch_logs,
                   launches, forms, now, callvars>>

-----------------------------------------------------------------------------
(***************************************************************************)
(* The handlers of the sample tool (src/sample_tool.py).                   *)
(***************************************************************************)

\* The sample tool's credentials and the URL its launch route is reached at.
EXPECTED_KEY == <<116,101,115,116,95,107,101,121>>
EXPECTED_SECRET == <<116,101,115,116,95,115,101,99,114,101,116>>
ToolLaunchUrl == <<104,116,116,112,58,47,47,108,111,99,97,108,104,111,115,116,58,56,48,56,48,47,108,116,105,47,108,97,117,110,99,104>>

\* pat in text
Contains(text, pat) == \E i \in 1..(Len(text) - Len(pat) + 1) : MatchAt(text, i, pat)

\* dict(form_data): the last value of a repeated name.
RECURSIVE dict_of(_, _, _)
dict_of(items, i, acc) ==
    IF i > Len(items) THEN acc
    ELSE dict_of(items, i + 1, DictSet(acc, items[i][1], items[i][2]))

\* str(request.url).split('?')[0]
url_without_query(u) == split(u, 63)[1]

\* A launch store that keeps one entry per oauth_nonce: the entry of a
\* request delivered again takes the place of the entry it left before.
store_launch_by_nonce(launch_id, params, timestamp) ==
    DictSet(SelectSeq(launches, LAMBDA l :
                DictGet(l[2].params, K.oauth_nonce, None)
                    # DictGet(params, K.oauth_nonce, None)),
            launch_id, [params |-> params, timestamp |-> timestamp])

\* A launch store with one slot for the current launch: a new launch takes
\* the place of the one before.
store_launch_latest(launch_id, params, timestamp) ==
    << <<launch_id, [params |-> params, timestamp |-> timestamp]>> >>

\* launches[launch_id] = {'params': params, 'timestamp': time.time()}
store_launch(launch_id, params, timestamp) ==
    DictSet(launches, launch_id, [params |-> params, timestamp |-> timestamp])

\* A launch handler that answers a signature mismatch with 401 and stores
\* nothing.
lti_launch_strict(url, params, timestamp) ==
    IF DictGet(params, K.lti_message_type, None) # Txt.basic_lti_launch_request
    THEN /\ response' = Page(400, "Invalid LTI message type")
         /\ UNCHANGED <<launches, uuid_ctr, now>>
    ELSE IF DictGet(params, K.lti_version, None) # Txt.LTI_1p0
    THEN /\ response' = Page(400, "Invalid LTI version")
         /\ UNCHANGED <<launches, uuid_ctr, now>>
    ELSE IF DictGet(params, K.oauth_consumer_key, None) # EXPECTED_KEY
    THEN /\ response' = Page(401, "Invalid consumer key")
         /\ UNCHANGED <<launches, uuid_ctr, now>>
    ELSE \E received_signature \in {DictGet(params, oauth_signature, <<>>)},
            request_url \in {url_without_query(url)},
            launch_id \in {uuid4(3, uuid_ctr.launch_id)} :
         \E verified \in {verify_oauth_signature(Txt.POST, request_url, params, EXPECTED_SECRET, received_signature)} :
             IF ~verified
             THEN /\ response' = Page(401, "Invalid signature")
                  /\ UNCHANGED <<launches, uuid_ctr, now>>
             ELSE /\ timestamp >= now
                  /\ now' = timestamp
                  /\ launches' = store_launch(launch_id, params, timestamp)
                  /\ uuid_ctr' = [uuid_ctr EXCEPT !.launch_id = @ + 1]
                  /\ response' = Page(200, "launch")

\* A launch handler that checks the consumer key before the message type
\* and the version.
lti_launch_key_first(url, params, timestamp) ==
    IF DictGet(params, K.oauth_consumer_key, None) # EXPECTED_KEY
    THEN /\ response' = Page(401, "Invalid consumer key")
         /\ UNCHANGED <<launches, uuid_ctr, now>>
    ELSE IF DictGet(params, K.lti_message_type, None) # Txt.basic_lti_launch_request
    THEN /\ response' = Page(400, "Invalid LTI message type")
         /\ UNCHANGED <<launches, uuid_ctr, now>>
    ELSE IF DictGet(params, K.lti_version, None) # Txt.LTI_1p0
    THEN /\ response' = Page(400, "Invalid LTI version")
         /\ UNCHANGED <<launches, uuid_ctr, now>>
    ELSE \E received_signature \in {DictGet(params, oauth_signature, <<>>)},
            request_url \in {url_without_query(url)},
            launch_id \in {uuid4(3, uuid_ctr.launch_id)} :
         \E verified \in {verify_oauth_signature(Txt.POST, request_url, params, EXPECTED_SECRET, received_signature)} :
             /\ timestamp >= now
             /\ now' = timestamp
             /\ launches' = store_launch(launch_id, params, timestamp)
             /\ uuid_ctr' = [uuid_ctr EXCEPT !.launch_id = @ + 1]
             /\ response' = Page(200, IF verified THEN "launch"
                                      ELSE "launch, signature mismatch logged")

\* lti_launch on a request: the three checks, the signature check that is
\* only logged, and the new entry of the launch store.  timestamp is what
\* time.time() reads when the entry is stored.
lti_launch(url, params, timestamp) ==
    IF DictGet(params, K.lti_message_type, None) # Txt.basic_lti_launch_request
    THEN /\ response' = Page(400, "Invalid LTI message type")
         /\ UNCHANGED <<launches, uuid_ctr, now>>
    ELSE IF DictGet(params, K.lti_version, None) # Txt.LTI_1p0
    THEN /\ response' = Page(400, "Invalid LTI version")
         /\ UNCHANGED <<launches, uuid_ctr, now>>
    ELSE IF DictGet(params, K.oauth_consumer_key, None) # EXPECTED_KEY
    THEN /\ response' = Page(401, "Invalid consumer key")
         /\ UNCHANGED <<launches, uuid_ctr, now>>
    ELSE \E received_signature \in {DictGet(params, oauth_signature, <<>>)},
            request_url \in {url_without_query(url)},
            launch_id \in {uuid4(3, uuid_ctr.launch_id)} :
         \E verified \in {verify_oauth_signature(Txt.POST, request_url, params, EXPECTED_SECRET, received_signature)} :
             /\ timestamp >= now
             /\ now' = timestamp
             /\ launches' = store_launch(launch_id, params, timestamp)
             /\ uuid_ctr' = [uuid_ctr EXCEPT !.launch_id = @ + 1]
             /\ response' = Page(200, IF verified THEN "launch"
                                      ELSE "launch, signature mismatch logged")

\* The browser submits an auto-submit form the platform rendered.  A form
\* whose action is not the sample tool's launch route reaches no handler of
\* the model.
submit_form(i, timestamp) ==
    /\ i \in 1..Len(forms)
    /\ Len(launches) < MaxStored
    /\ url_without_query(forms[i].action) = ToolLaunchUrl
    /\ \E url \in {forms[i].action}, params \in {dict_of(forms[i].fields, 1, <<>>)} :
          lti_launch(url, params, timestamp)
    /\ UNCHANGED <<dbvars, forms, posts, callvars>>

RECURSIVE Pow10(_)
Pow10(k) == IF k = 0 THEN 1 ELSE 10 * Pow10(k - 1)

\* k decimal digits of n, with leading zeros.
RECURSIVE Digits(_, _)
Digits(n, k) == IF k = 0 THEN <<>> ELSE Append(Digits(n \div 10, k - 1), 48 + (n % 10))

\* f"{score}" of a float: repr, which for a short decimal n / 10^e is sign,
\* integer part, point and fraction, "0" for an empty fraction, and which
\* is "inf", "-inf" or "nan" for the others.
format_float(v) ==
    IF v = NaN THEN <<110,97,110>>
    ELSE IF ~IsFinite(v)
    THEN (IF v.inf < 0 THEN <<45>> ELSE <<>>) \o <<105,110,102>>
    ELSE LET mag == IF v.n < 0 THEN 0 - v.n ELSE v.n
         IN  (IF v.n < 0 THEN <<45>> ELSE <<>>)
             \o IntToStr(mag \div Pow10(v.e)) \o <<46>>
             \o (IF v.e = 0 THEN <<48>> ELSE Digits(mag % Pow10(v.e), v.e))

\* xml_payload
xml_payload(message_id, sourced_id, score) ==
    xml_payload_text[1] \o message_id \o xml_payload_text[2] \o sourced_id
        \o xml_payload_text[3] \o format_float(score) \o xml_payload_text[4]

\* success = response.status_code == 200 and 'success' in response.text.lower()
grade_success(reply) == reply.status = 200 /\ Contains(lower(reply.body), <<115,117,99,99,101,115,115>>)

\* A client that sends a POST again when it got no answer or an answer
\* other than 200.
client_post_retry(launch_id, url, body, reply) ==
    LET sent == [launch_id |-> launch_id, url |-> url, body |-> body, reply |-> reply]
    IN  IF reply.status = 200 THEN Append(posts, sent)
        ELSE Append(Append(posts, sent), sent)

\* client.post(outcomes_url, content=xml_payload, ...): the POSTs sent so far
\* and this one, with its reply (NoResponse when the client raised).
client_post(launch_id, url, body, reply) ==
    Append(posts, [launch_id |-> launch_id, url |-> url, body |-> body, reply |-> reply])

\* A handler without the except clause: the framework answers the exception.
send_grade_unhandled(e) == InternalServerError

\* except Exception as e: raise HTTPException(status_code=500, detail=...)
send_grade_except(e) == Page(500, "Failed to send grade")

\* The page send_grade returns after the POST was answered.  It shows
\* int(score * 100), which raises for an infinity (OverflowError) and for
\* NaN (ValueError) inside the try block.
grade_page(score, reply) ==
    IF ~IsFinite(score)
    THEN send_grade_except(IF score = NaN THEN "ValueError" ELSE "OverflowError")
    ELSE [status |-> 200, body |-> reply.body,
          page |-> IF grade_success(reply) THEN "Grade Sent Successfully"
                   ELSE "Failed to Send Grade"]

\* GET / of the sample tool: a fixed page that tells how to configure the
\* platform.
index ==
    /\ response' = RenderedPage("Sample LTI 1.1 Tool",
           <<<<80,79,83,84,32,47,108,116,105,47,108,97,117,110,99,104>>,
             <<116,101,115,116,95,107,101,121>>,
             <<116,101,115,116,95,115,101,99,114,101,116>>>>)
    /\ UNCHANGED <<dbvars, launches, forms, posts, uuid_ctr, now, callvars>>

\* A check that asks for the outcomes URL only.
outcomes_supported_url_only(outcomes_url, sourced_id) ==
    outcomes_url \notin {None, <<>>}

\* not (not outcomes_url or not sourced_id): both are there and not empty.
outcomes_supported(outcomes_url, sourced_id) ==
    ~(outcomes_url \in {None, <<>>} \/ sourced_id \in {None, <<>>})

\* POST /send-grade.  net is what the network does with the POST to the
\* outcomes URL: "ok" delivers it, "down" makes the client raise (connection
\* refused, timeout), which the handler turns into 500.  A POST delivered to
\* the platform's outcomes URL is answered by receive_outcome; served is the
\* answer of the server at any other URL, NoResponse if none is there.
send_grade(launch_id, score, net, served) ==
    /\ Len(posts) < MaxPosts
    /\ IF ~DictHas(launches, launch_id)
       THEN /\ response' = Page(404, "Launch not found")
            /\ UNCHANGED <<grade_results, sqlite_sequence, posts, uuid_ctr>>
       ELSE \E params \in {DictGet(launches, launch_id, None).params} :
            \E outcomes_url \in {DictGet(params, K.lis_outcome_service_url, None)},
               sourced_id \in {DictGet(params, K.lis_result_sourcedid, None)} :
                IF ~outcomes_supported(outcomes_url, sourced_id)
                THEN /\ response' = Page(400, "Outcomes not supported")
                     /\ UNCHANGED <<grade_results, sqlite_sequence, posts, uuid_ctr>>
                ELSE \E message_id \in {uuid4(4, uuid_ctr.message_id)} :
                     \E body \in {xml_payload(message_id, sourced_id, score)} :
                        IF net = "ok" /\ outcomes_url = PlatformOutcomesUrl
                        THEN /\ receive_outcome(body, launch_id, outcomes_url,
                                                uuid4(5, uuid_ctr.msg_id))
                             /\ \E reply \in {posts'[Len(posts')].reply} :
                                   response' = grade_page(score, reply)
                             /\ uuid_ctr' = [uuid_ctr EXCEPT !.message_id = @ + 1,
                                                             !.msg_id = @ + 1]
                        ELSE IF net = "ok" /\ outcomes_url # PlatformOutcomesUrl
                                /\ served # NoResponse
                        THEN /\ posts' = client_post(launch_id, outcomes_url, body, served)
                             /\ response' = grade_page(score, served)
                             /\ uuid_ctr' = [uuid_ctr EXCEPT !.message_id = @ + 1]
                             /\ UNCHANGED <<grade_results, sqlite_sequence>>
                        ELSE /\ posts' = client_post(launch_id, outcomes_url, body, NoResponse)
                             /\ response' = send_grade_except("ConnectError")
                             /\ uuid_ctr' = [uuid_ctr EXCEPT !.message_id = @ + 1]
                             /\ UNCHANGED <<grade_results, sqlite_sequence>>
    /\ UNCHANGED <<tool_servers, tools, course_tools, launch_logs,
                   launches, forms, now, callvars>>

-----------------------------------------------------------------------------
(***************************************************************************)
(* Spec: the platform, the sample tool and the browser between them.  An   *)
(* administrator sets up a tool server, a tool and course tools; a user    *)
(* launches; the browser submits the form; the sample tool pushes grades.  *)
(***************************************************************************)

ScoreInputs == {[n |-> 5, e |-> 1]}   \* 0.5

AddToolServer == add_tool_server(<<108,111,99,97,108,104,111,115,116>>, 8080)

AddTool ==
    \E key \in {EXPECTED_KEY, <<111,116,104,101,114,95,107,101,121>>}, custom \in CustomParamsInputs :
        /\ (key = EXPECTED_KEY) = (custom # NullParams)
        /\ add_tool(<<83,97,109,112,108,101,32,84,111,111,108>>, 1, <<47,108,116,105,47,108,97,117,110,99,104>>, key, EXPECTED_SECRET, custom, <<>>)

DeleteTool == \E id \in 1..MaxTools : delete_tool(id)

AddToolToCourse == \E c \in {1, 2}, t \in 1..MaxTools : add_tool_to_course(c, t)

RemoveToolFromCourse ==
    \E c \in {1, 2}, id \in 1..MaxCourseTools : remove_tool_from_course(c, id)

LaunchTool ==
    \E id \in 1..MaxCourseTools, u \in {4, 99}, t \in now..MaxClock : launch_tool(id, u, t)

SubmitForm == \E i \in 1..MaxLaunches, t \in now..MaxClock : submit_form(i, t)

SendGrade ==
    \E id \in DictKeys(launches) \cup {<<110,111,45,115,117,99,104,45,108,97,117,110,99,104>>},
       score \in ScoreInputs, net \in {"ok", "down"} :
        send_grade(id, score, net, NoResponse)

Init ==
    /\ SysInit
    /\ pc = "system"
    /\ inp = <<>>
    /\ out = <<>>

Next ==
    \/ AddToolServer
    \/ AddTool
    \/ DeleteTool
    \/ AddToolToCourse
    \/ RemoveToolFromCourse
    \/ LaunchTool
    \/ SubmitForm
    \/ SendGrade

Spec == Init /\ [][Next]_vars

-----------------------------------------------------------------------------
(***************************************************************************)
(* SpecOutcomes: the outcomes endpoint under requests of any client.       *)
(* receive_outcome reads the request body and the table course_tools and   *)
(* writes the table grade_results, so the specification has the two        *)
(* handlers that write course_tools and the requests to /outcomes.         *)
(***************************************************************************)

\* An outcomes request: the elements that are present, in the order
\* sourcedId, textString, message identifier.
crafted_body(msg_id, sourced_id, score) ==
    (IF sourced_id = None THEN <<>>
     ELSE Tag.sourcedId \o sourced_id \o Tag.sourcedId_end)
    \o (IF score = None THEN <<>>
        ELSE Tag.textString \o score \o Tag.textString_end)
    \o (IF msg_id = None THEN <<>>
        ELSE Tag.messageIdentifier \o msg_id \o Tag.messageIdentifier_end)

\* The sourced ids naming a course tool that is there, for user 4.
LinkedSourcedIds ==
    {sourced_id_of(IntToStr(course_tools[i].course_id),
                   course_tools[i].resource_link_id, <<52>>) :
        i \in 1..Len(course_tools)}

\* Requests without a sourcedId, with a sourcedId that is not base64 ("BAD"),
\* that decodes to four fields ("1:a:b:4") or that names no course tool
\* ("1:no-such-link:4"); and for each linked sourced id a request with the
\* score "abc", without score, without message identifier and with the
\* score 1.5, and with the score 0.9; and for each course tool a request
\* with the score 0.9 for the user id 99, which is no user's.
CraftedBodies ==
    { crafted_body(<<109,45,49>>, None, <<48,46,57>>),
      crafted_body(<<109,45,49>>, <<66,65,68>>, <<48,46,57>>),
      crafted_body(<<109,45,49>>, sourced_id_of(<<49>>, <<97,58,98>>, <<52>>), <<48,46,57>>),
      crafted_body(<<109,45,49>>, sourced_id_of(<<49>>, <<110,111,45,115,117,99,104,45,108,105,110,107>>, <<52>>), <<48,46,57>>) }
    \cup {crafted_body(<<109,45,49>>, s, <<97,98,99>>) : s \in LinkedSourcedIds}
    \cup {crafted_body(<<109,45,49>>, s, None) : s \in LinkedSourcedIds}
    \cup {crafted_body(None, s, <<49,46,53>>) : s \in LinkedSourcedIds}
    \cup {crafted_body(<<109,45,50>>, s, <<48,46,57>>) : s \in LinkedSourcedIds}
    \cup {crafted_body(<<109,45,51>>,
                       sourced_id_of(IntToStr(course_tools[i].course_id),
                                     course_tools[i].resource_link_id, <<57,57>>),
                       <<48,46,57>>) : i \in 1..Len(course_tools)}

PostOutcome == \E b \in CraftedBodies : post_outcome(b)

OutcomesNext ==
    \/ AddToolToCourse
    \/ RemoveToolFromCourse
    \/ PostOutcome

SpecOutcomes == Init /\ [][OutcomesNext]_vars

-----------------------------------------------------------------------------
(***************************************************************************)
(* Properties of the outcomes endpoint.                                    *)
(***************************************************************************)

\* The elements of an outcomes request, as the endpoint extracts them.
SourcedIdText(body) == re_search(Tag.sourcedId, Tag.sourcedId_end, body)
ScoreText(body) == re_search(Tag.textString, Tag.textString_end, body)
MessageId(body) == re_search(Tag.messageIdentifier, Tag.messageIdentifier_end, body)

\* The textString of the request is there and float() accepts it.
ParsableScore(body) == ScoreText(body) # None /\ float(ScoreText(body)).ok

\* The sourced id decodes to three fields that name a course tool that is
\* there: its course and its resource link.
Linked(sid) ==
    LET d == decode_sourced_id(sid)
    IN  /\ d.ok
        /\ Len(d.val) = 3
        /\ \E i \in 1..Len(course_tools) :
              /\ IntToStr(course_tools[i].course_id) = d.val[1]
              /\ course_tools[i].resource_link_id = d.val[2]

\* The answer is the POX response of a stored grade: status 200 and
\* imsx_codeMajor "success".
SuccessResponse(reply) ==
    /\ reply.status = 200
    /\ re_search(Tag.codeMajor, Tag.codeMajor_end, reply.body) = <<115,117,99,99,101,115,115>>

\* A step sends one POST to an outcomes URL; SentPost is the set of that
\* POST.
Sends == Len(posts') = Len(posts) + 1
SentPost == {posts'[Len(posts')]}

\* C4: a request without sourcedId element, or whose textString score is not
\* there or is not a float, gets the success response of a stored grade and
\* leaves no grade record.
C4_MalformedDropped ==
    \A i \in 1..Len(posts) :
        (/\ posts[i].reply # NoResponse
         /\ SourcedIdText(posts[i].body) = None \/ ~ParsableScore(posts[i].body))
        => /\ SuccessResponse(posts[i].reply)
           /\ \A j \in 1..Len(grade_results) : grade_results[j].raw_xml # posts[i].body

\* C5: a request with a parsable score and a sourcedId that does not decode,
\* does not split into exactly three fields or names no course tool leaves
\* grade_results unchanged and is answered with the success response.
C5_UnlinkedDropped ==
    [][Sends =>
        \A p \in SentPost : \A sid \in {SourcedIdText(p.body)} :
            (/\ p.reply # NoResponse
             /\ ParsableScore(p.body)
             /\ sid # None
             /\ ~Linked(sid))
            => /\ grade_results' = grade_results
               /\ SuccessResponse(p.reply)]_vars

\* Two different requests of that kind were answered with the success
\* response, one of them with a sourcedId that is not base64, and no grade
\* is stored.
C5_Witness ==
    /\ Len(posts) = 2
    /\ posts[1].body # posts[2].body
    /\ SourcedIdText(posts[1].body) = <<66,65,68>>
    /\ \A i \in 1..2 :
          /\ ParsableScore(posts[i].body)
          /\ SourcedIdText(posts[i].body) # None
          /\ ~Linked(SourcedIdText(posts[i].body))
          /\ SuccessResponse(posts[i].reply)
    /\ course_tools # <<>>
    /\ grade_results = <<>>

\* C6: the response to every outcomes request carries the request's
\* imsx_messageIdentifier as imsx_messageRefIdentifier, and imsx_codeMajor
\* "success".
C6_EchoesMessageId ==
    \A i \in 1..Len(posts) :
        (posts[i].reply # NoResponse /\ MessageId(posts[i].body) # None)
        => /\ re_search(Tag.messageRefIdentifier, Tag.messageRefIdentifier_end,
                        posts[i].reply.body) = MessageId(posts[i].body)
           /\ re_search(Tag.codeMajor, Tag.codeMajor_end, posts[i].reply.body) = <<115,117,99,99,101,115,115>>

\* C7: a request with a parsable score and a sourcedId naming a course tool
\* that is there appends exactly one grade record, for that sourcedId, and
\* changes no record that was there.
C7_ValidAppendsOne ==
    [][Sends =>
        \A p \in SentPost : \A sid \in {SourcedIdText(p.body)} :
            (/\ p.reply # NoResponse
             /\ ParsableScore(p.body)
             /\ sid # None
             /\ Linked(sid))
            => /\ Len(grade_results') = Len(grade_results) + 1
               /\ SubSeq(grade_results', 1, Len(grade_results)) = grade_results
               /\ grade_results'[Len(grade_results')].sourced_id = sid
               /\ grade_results'[Len(grade_results')].raw_xml = p.body
               /\ \A j \in 1..Len(grade_results) :
                     grade_results'[Len(grade_results')].id # grade_results[j].id]_vars

\* The same valid request was delivered twice and left two records.
C7_Witness ==
    /\ Len(posts) = 2
    /\ posts[1].body = posts[2].body
    /\ Len(grade_results) = 2
    /\ grade_results[1].sourced_id = grade_results[2].sourced_id
    /\ grade_results[1].raw_xml = posts[1].body
    /\ grade_results[2].raw_xml = posts[1].body
    /\ grade_results[1].id # grade_results[2].id

\* C28: the outcomes endpoint asks for no credentials and no launch: a
\* request with a parsable score and a sourcedId naming a course tool that
\* is there leaves a grade record for the user id the sourcedId decodes to,
\* although no launch was ever logged and whether or not that id is a
\* user's.
C28_StoredWithoutLaunch ==
    [][Sends =>
        \A p \in SentPost : \A sid \in {SourcedIdText(p.body)} :
            (/\ p.launch_id = None
             /\ launch_logs = <<>>
             /\ ParsableScore(p.body)
             /\ sid # None
             /\ Linked(sid))
            => /\ Len(grade_results') = Len(grade_results) + 1
               /\ grade_results'[Len(grade_results')].sourced_id = sid
               /\ grade_results'[Len(grade_results')].user_id
                     = sql_integer(decode_sourced_id(sid).val[3])
               /\ \E i \in 1..Len(course_tools) :
                     /\ course_tools[i].id = grade_results'[Len(grade_results')].course_tool_id
                     /\ course_tools[i].resource_link_id = decode_sourced_id(sid).val[2]
               /\ p.reply.status = 200]_vars

\* A grade record for the user id 99 is stored; there is no such user and
\* no launch was logged.
C28_Witness ==
    /\ launch_logs = <<>>
    /\ launches = <<>>
    /\ \A u \in 1..Len(users) : users[u].id # 99
    /\ \E j \in 1..Len(grade_results) :
          /\ grade_results[j].user_id = sql_int(99)
          /\ grade_results[j].score = [n |-> 9, e |-> 1]
          /\ \E i \in 1..Len(posts) :
                /\ posts[i].launch_id = None
                /\ posts[i].body = grade_results[j].raw_xml

\* The float is a number from 0.0 to 1.0.
InUnitInterval(v) == IsFinite(v) /\ 0 <= v.n /\ v.n <= Pow10(v.e)

\* C14: every grade record receive_outcome stored has a score within
\* [0.0, 1.0].
C14_ScoreInRange ==
    \A j \in 1..Len(grade_results) : InUnitInterval(grade_results[j].score)

\* The row of launch_logs of the launch the sample tool stored under
\* launch_id: the row with the nonce of the stored parameters.
LoggedLaunch(launch_id) ==
    Rows(launch_logs, LAMBDA l :
        DictGet(l.signed_params, K.oauth_nonce, None)
            = DictGet(DictGet(launches, launch_id, None).params, K.oauth_nonce, None))

\* C8: when the sample tool pushes a grade for a stored launch, the POST
\* reaches the platform and the course tool that was launched is still
\* there, the platform appends a grade record with the id of that course
\* tool and the id of the user of the launch, and its sourced id decodes to
\* the course id, resource link id and user id of the launch.
C8_GradeReachesLaunchedAssociation ==
    [][Sends =>
        \A p \in SentPost :
            (p.launch_id # None /\ p.reply # NoResponse) =>
            \A logs \in {LoggedLaunch(p.launch_id)} : \A k \in 1..Len(logs) :
            \A ct \in {Rows(course_tools, LAMBDA r : r.id = logs[k].course_tool_id)} :
                ct # <<>> =>
                  /\ Len(grade_results') = Len(grade_results) + 1
                  /\ \A g \in {grade_results'[Len(grade_results')]} :
                         /\ g.course_tool_id = logs[k].course_tool_id
                         /\ g.user_id = sql_int(logs[k].user_id)
                         /\ \A sid \in {g.sourced_id} :
                               decode_sourced_id(sid)
                                 = Returned(<<IntToStr(ct[1].course_id),
                                              ct[1].resource_link_id,
                                              IntToStr(logs[k].user_id)>>)]_vars

\* A grade pushed for a launch of the second of two course tools is stored
\* for that course tool and for user 4.
C8_Witness ==
    /\ Len(course_tools) = 2
    /\ Len(launch_logs) = 1
    /\ launch_logs[1].course_tool_id = 2
    /\ launch_logs[1].user_id = 4
    /\ Len(posts) >= 1
    /\ posts[1].launch_id # None
    /\ LoggedLaunch(posts[1].launch_id) = launch_logs
    /\ SuccessResponse(posts[1].reply)
    /\ Len(grade_results) >= 1
    /\ grade_results[1].course_tool_id = 2
    /\ grade_results[1].user_id = sql_int(4)
    /\ grade_results[1].raw_xml = posts[1].body

-----------------------------------------------------------------------------
(***************************************************************************)
(* SpecTool: the sample tool under the requests of any client.  A client   *)
(* posts a launch request to /lti/launch, once or again, whether or not    *)
(* the platform built and signed it; grades are pushed for the stored      *)
(* launches to the outcomes URL the request named, which the platform or   *)
(* another server answers, or nobody.                                      *)
(***************************************************************************)

\* An outcomes URL that is not the platform's, and what the server there
\* answers: 200 "Success", 200 "failure", 500 "success", 302 with no body.
OtherOutcomesUrl == <<104,116,116,112,58,47,47,108,109,115,46,101,120,97,109,112,108,101,47,111,117,116,99,111,109,101,115>>
ServedReplies ==
    { [status |-> 200, body |-> <<83,117,99,99,101,115,115>>, page |-> "xml"],
      [status |-> 200, body |-> <<102,97,105,108,117,114,101>>, page |-> "xml"],
      [status |-> 500, body |-> <<115,117,99,99,101,115,115>>, page |-> "xml"],
      [status |-> 302, body |-> <<>>, page |-> "xml"] }

\* The LaunchRequest the platform builds for user 4 in course 1 and a tool
\* with the sample tool's credentials.
SignedRequest(outcomes_url) ==
    build_lti_launch_params(
        [consumer_key |-> EXPECTED_KEY, consumer_secret |-> EXPECTED_SECRET],
        courses[1], users[4], uuid4(1, 0), <<83,97,109,112,108,101,32,84,111,111,108>>,
        ToolLaunchUrl, outcomes_url, <<>>, <<48>>, uuid4(2, 0)).val

\* A request as signed, with a forged signature, without signature, and
\* with another user_id under the signature it had.
SignatureVariants(signed) ==
    { [url |-> ToolLaunchUrl, params |-> signed],
      [url |-> ToolLaunchUrl,
       params |-> DictSet(signed, oauth_signature, <<102,111,114,103,101,100>>)],
      [url |-> ToolLaunchUrl, params |-> DictWithout(signed, oauth_signature)],
      [url |-> ToolLaunchUrl, params |-> DictSet(signed, K.user_id, <<49>>)] }

\* The requests a client posts: the signature variants of the signed request
\* for either outcomes URL; the signed request posted to the launch URL with
\* a query string; requests that fail one check or several; and requests
\* that name no outcomes service, an empty one, or no sourced id.
ToolRequests ==
    SignatureVariants(SignedRequest(PlatformOutcomesUrl))
    \cup SignatureVariants(SignedRequest(OtherOutcomesUrl))
    \cup
    { [url |-> ToolLaunchUrl \o <<63,97,61,49>>, params |-> SignedRequest(PlatformOutcomesUrl)],
      [url |-> ToolLaunchUrl,
       params |-> DictSet(SignedRequest(PlatformOutcomesUrl), K.lti_message_type, <<120>>)],
      [url |-> ToolLaunchUrl,
       params |-> DictWithout(SignedRequest(PlatformOutcomesUrl), K.lti_version)],
      [url |-> ToolLaunchUrl,
       params |-> DictSet(SignedRequest(PlatformOutcomesUrl), K.oauth_consumer_key, <<111,116,104,101,114,95,107,101,121>>)],
      [url |-> ToolLaunchUrl,
       params |-> DictWithout(SignedRequest(PlatformOutcomesUrl), K.lis_outcome_service_url)],
      [url |-> ToolLaunchUrl,
       params |-> DictWithout(SignedRequest(PlatformOutcomesUrl), K.lis_result_sourcedid)],
      [url |-> ToolLaunchUrl, params |-> SignedRequest(<<>>)],
      [url |-> ToolLaunchUrl,
       params |-> DictSet(DictWithout(DictSet(SignedRequest(PlatformOutcomesUrl),
                              K.lti_message_type, <<120>>), K.lti_version),
                          K.oauth_consumer_key, <<111,116,104,101,114,95,107,101,121>>)],
      [url |-> ToolLaunchUrl,
       params |-> DictSet(DictSet(SignedRequest(PlatformOutcomesUrl), K.lti_version, <<76,84,73,45,50,112,48>>),
                          K.oauth_consumer_key, <<111,116,104,101,114,95,107,101,121>>)] }

\* The scores a client submits to /send-grade: 0.5 and inf.
ToolScores == {[n |-> 5, e |-> 1], Infinity(1)}

ToolInit ==
    /\ SysInit
    /\ pc = "tool"
    /\ inp \in ToolRequests
    /\ out = <<>>

\* The request is posted to /lti/launch; out is the log of the answers.
DeliverLaunch ==
    /\ pc = "tool"
    /\ Len(out) < MaxDeliveries
    /\ \E timestamp \in now..MaxClock : lti_launch(inp.url, inp.params, timestamp)
    /\ out' = Append(out, response')
    /\ UNCHANGED <<dbvars, forms, posts, pc, inp>>

PushGrade ==
    /\ pc = "tool"
    /\ \E id \in DictKeys(launches) \cup {<<110,111,45,115,117,99,104,45,108,97,117,110,99,104>>},
          score \in ToolScores, net \in {"ok", "down"},
          served \in ServedReplies \cup {NoResponse} :
            send_grade(id, score, net, served)

ToolNext ==
    \/ DeliverLaunch
    \/ PushGrade

SpecTool == ToolInit /\ [][ToolNext]_vars

-----------------------------------------------------------------------------
(***************************************************************************)
(* Properties of the sample tool.                                          *)
(***************************************************************************)

\* A step delivers the launch request to the sample tool.
Delivers == pc = "tool" /\ Len(out') = Len(out) + 1

\* The request has the message type, the version and the consumer key the
\* sample tool asks for.
PassesChecks(params) ==
    /\ DictGet(params, K.lti_message_type, None) = Txt.basic_lti_launch_request
    /\ DictGet(params, K.lti_version, None) = Txt.LTI_1p0
    /\ DictGet(params, K.oauth_consumer_key, None) = EXPECTED_KEY

\* The request carries no oauth_signature, or one that is not the signature
\* of POST, the launch URL and its other parameters under the tool's secret.
WrongSignature(req) ==
    DictGet(req.params, oauth_signature, None)
        # generate_oauth_signature(Txt.POST, ToolLaunchUrl,
              DictWithout(req.params, oauth_signature), EXPECTED_SECRET)

\* The step adds one entry to the launch store, under a launch id no entry
\* had, holding the parameters params, and is answered with the launch page.
StoresLaunch(params) ==
    /\ Len(launches') = Len(launches) + 1
    /\ SubSeq(launches', 1, Len(launches)) = launches
    /\ launches'[Len(launches')][1] \notin DictKeys(launches)
    /\ launches'[Len(launches')][2].params = params
    /\ response'.status = 200
    /\ response'.page \in {"launch", "launch, signature mismatch logged"}

C13_ReplayAccepted ==
    [][Delivers =>
        \A req \in {inp} :
            (/\ PassesChecks(req.params)
             /\ \E i \in 1..Len(launches) : launches[i][2].params = req.params)
                => StoresLaunch(req.params)]_vars

\* The request the platform signed was delivered at second 0 and again at
\* second 1 and left two entries that differ in the launch id.
C13_Witness ==
    /\ pc = "tool"
    /\ ~WrongSignature(inp)
    /\ Len(launches) = 2
    /\ launches[1][1] # launches[2][1]
    /\ launches[1][2].params = launches[2][2].params
    /\ DictGet(launches[1][2].params, K.oauth_nonce, None)
         = DictGet(launches[2][2].params, K.oauth_nonce, None)
    /\ launches[1][2].timestamp = 0
    /\ launches[2][2].timestamp = 1
    /\ out[1].page = "launch"
    /\ out[2].page = "launch"

\* The text holds "success" in any mix of upper and lower case.
HoldsSuccess(text) ==
    \E i \in 1..(Len(text) - 6) :
        \A j \in 1..7 :
            text[i + j - 1] \in {<<115,117,99,99,101,115,115>>[j], <<83,85,67,67,69,83,83>>[j]}

\* C15: send_grade reports success exactly when the outcomes response has
\* status 200 and its body holds "success" in any case; with any other
\* status or body, or with no response, it reports a failure.
C15_SuccessIffOkAndText ==
    [][(pc = "tool" /\ Sends) =>
        \A p \in SentPost :
            (response'.page = "Grade Sent Successfully")
                <=> (p.reply.status = 200 /\ HoldsSuccess(p.reply.body))]_vars

\* C16: when the POST to the outcomes URL gets no response (the connection
\* fails or times out), send_grade answers its caller with the failure
\* result of its except clause, not with the framework's answer to an
\* exception nobody caught, and stores nothing.
C16_UnreachableIsFailureResult ==
    [][(pc = "tool" /\ Sends) =>
        \A p \in SentPost :
            p.reply = NoResponse =>
                /\ response'.status = 500
                /\ response'.page = "Failed to send grade"
                /\ response' # InternalServerError
                /\ UNCHANGED <<launches, grade_results>>]_vars

\* A grade pushed to an outcomes URL nobody answers at was reported as
\* failed.
C16_Witness ==
    /\ pc = "tool"
    /\ Len(posts) = 1
    /\ posts[1].url = OtherOutcomesUrl
    /\ posts[1].reply = NoResponse
    /\ response = Page(500, "Failed to send grade")
    /\ Len(launches) >= 1

\* C17: one call of send_grade sends at most one POST to the outcomes URL,
\* whether it is answered with success, with another status or not at all,
\* and leaves the POSTs sent before as they were.
C17_AtMostOnePost ==
    [][pc = "tool" =>
        /\ Len(posts') <= Len(posts) + 1
        /\ SubSeq(posts', 1, Len(posts)) = posts]_vars

\* A grade push was answered with status 500, was reported as failed, and
\* one POST was sent.
C17_Witness ==
    /\ pc = "tool"
    /\ Len(posts) = 1
    /\ posts[1].reply.status = 500
    /\ response.page = "Failed to Send Grade"
    /\ uuid_ctr.message_id = 1

\* C26: the sample tool checks the message type, then the version, then the
\* consumer key, answering the first failure with 400, 400 or 401, and only
\* a request that passes all three adds an entry to the launch store; a
\* rejected request leaves the store as it was.
C26_ChecksBeforeStore ==
    [][Delivers =>
        \A p \in {inp.params} :
            /\ DictGet(p, K.lti_message_type, None) # <<98,97,115,105,99,45,108,116,105,45,108,97,117,110,99,104,45,114,101,113,117,101,115,116>>
                  => /\ response'.status = 400
                     /\ response'.page = "Invalid LTI message type"
            /\ (/\ DictGet(p, K.lti_message_type, None) = <<98,97,115,105,99,45,108,116,105,45,108,97,117,110,99,104,45,114,101,113,117,101,115,116>>
                /\ DictGet(p, K.lti_version, None) # <<76,84,73,45,49,112,48>>)
                  => /\ response'.status = 400
                     /\ response'.page = "Invalid LTI version"
            /\ (/\ DictGet(p, K.lti_message_type, None) = <<98,97,115,105,99,45,108,116,105,45,108,97,117,110,99,104,45,114,101,113,117,101,115,116>>
                /\ DictGet(p, K.lti_version, None) = <<76,84,73,45,49,112,48>>
                /\ DictGet(p, K.oauth_consumer_key, None) # <<116,101,115,116,95,107,101,121>>)
                  => /\ response'.status = 401
                     /\ response'.page = "Invalid consumer key"
            /\ response'.status # 200 => launches' = launches
            /\ launches' # launches => PassesChecks(p) /\ StoresLaunch(p)]_vars

\* A request with a wrong message type, no version and a wrong consumer key
\* was answered with 400 for the message type and left no entry.
C26_Witness ==
    /\ pc = "tool"
    /\ Len(out) = 2
    /\ out[1] = Page(400, "Invalid LTI message type")
    /\ DictGet(inp.params, K.lti_message_type, None) = <<120>>
    /\ ~DictHas(inp.params, K.lti_version)
    /\ DictGet(inp.params, K.oauth_consumer_key, None) # EXPECTED_KEY
    /\ launches = <<>>

\* The stored launch names an outcomes URL and a sourced id, both not empty.
HasOutcomes(l) ==
    /\ DictGet(l.params, K.lis_outcome_service_url, <<>>) # <<>>
    /\ DictGet(l.params, K.lis_result_sourcedid, <<>>) # <<>>

\* C27: send_grade sends a POST only for a launch id of the store whose
\* entry holds both lis_outcome_service_url and lis_result_sourcedid, and
\* sends it to that URL for that sourced id; an unknown launch id is
\* answered 404 and an entry lacking either field 400, and then no request
\* is sent.
C27_PostOnlyForKnownLaunch ==
    [][(pc = "tool" /\ ~Delivers) =>
        /\ Sends =>
              \A p \in SentPost :
                  /\ DictHas(launches, p.launch_id)
                  /\ \A l \in {DictGet(launches, p.launch_id, None)} :
                     \A element \in {<<60,115,111,117,114,99,101,100,73,100,62>>
                                      \o DictGet(l.params, K.lis_result_sourcedid, None)
                                      \o <<60,47,115,111,117,114,99,101,100,73,100,62>>} :
                        /\ HasOutcomes(l)
                        /\ p.url = DictGet(l.params, K.lis_outcome_service_url, None)
                        /\ Contains(p.body, element)
        /\ response'.status \in {400, 404} => posts' = posts
        /\ launches = <<>> => response' = Page(404, "Launch not found")
        /\ (\A i \in 1..Len(launches) : ~HasOutcomes(launches[i][2]))
              => /\ posts' = posts
                 /\ response' \in {Page(404, "Launch not found"),
                                   Page(400, "Outcomes not supported")}]_vars

\* A launch without lis_result_sourcedid is in the store, a grade push for
\* it was answered 400, and no POST was sent.
C27_Witness ==
    /\ pc = "tool"
    /\ Len(launches) >= 1
    /\ DictHas(launches[1][2].params, K.lis_outcome_service_url)
    /\ ~DictHas(launches[1][2].params, K.lis_result_sourcedid)
    /\ response = Page(400, "Outcomes not supported")
    /\ posts = <<>>

-----------------------------------------------------------------------------
(***************************************************************************)
(* SpecLaunch: an administrator registers the tool server and one tool,    *)
(* with its launch path or a launch URL override, with or without a query  *)
(* string, and links it to courses; a user launches it; the browser        *)
(* submits the form to the sample tool; the pages that show a tool, a      *)
(* launch log and the sample tool's index are opened.                      *)
(***************************************************************************)
OtherSecret == <<104,117,110,116,101,114,50>>       \* "hunter2"

LaunchInit ==
    /\ SysInit
    /\ pc = "launch"
    /\ inp = <<>>
    /\ out = <<>>

RegisterTool ==
    \E path \in {<<47,108,116,105,47,108,97,117,110,99,104>>,
                 <<47,108,116,105,47,108,97,117,110,99,104,63,97,61,49>>},
       override \in {<<>>, ToolLaunchUrl, ToolLaunchUrl \o <<63,97,61,49>>},
       secret \in {EXPECTED_SECRET, OtherSecret} :
        /\ secret = OtherSecret => (override = <<>> /\ Len(path) = 11)
        /\ add_tool(<<83,97,109,112,108,101,32,84,111,111,108>>, 1, path,
                    EXPECTED_KEY, secret, NullParams, override)

EditToolForm == \E id \in 1..(MaxTools + 1) : edit_tool_form(id)

ViewLaunchLog == \E id \in 1..(MaxLaunches + 1) : view_launch_log(id)

ToolIndex == index

LaunchNext ==
    \/ AddToolServer
    \/ RegisterTool
    \/ AddToolToCourse
    \/ LaunchTool
    \/ SubmitForm
    \/ EditToolForm
    \/ ViewLaunchLog
    \/ ToolIndex

SpecLaunch == LaunchInit /\ [][LaunchNext]_vars

\* Position i of the text lies inside a digest.
InsideDigest(text, i) ==
    Cardinality({a \in 1..i : text[a] = -1}) > Cardinality({b \in 1..i : text[b] = -3})

\* The text shows the secret: it holds it somewhere outside a digest.
ShowsSecret(text, secret) ==
    \E i \in 1..Len(text) : MatchAt(text, i, secret) /\ ~InsideDigest(text, i)

\* C21: no page and no launch form holds the consumer secret of a tool, nor
\* the secret the sample tool is configured with.
C21_SecretNeverRendered ==
    \A secret \in {tools[t].consumer_secret : t \in 1..Len(tools)} \cup {EXPECTED_SECRET} :
        /\ ~ShowsSecret(response.body, secret)
        /\ \A f \in 1..Len(forms) : \A i \in 1..Len(forms[f].fields) :
              /\ ~ShowsSecret(forms[f].fields[i][1], secret)
              /\ ~ShowsSecret(forms[f].fields[i][2], secret)

\* The step delivers the form the platform rendered to the sample tool,
\* which stores the launch.
SubmitsForm == pc = "launch" /\ Len(launches') = Len(launches) + 1

\* The URL launch_tool signs for the tool: the override when set, else the
\* URL built from the tool's server and launch path.
SignedUrl(tool) ==
    IF tool.launch_url_override # None THEN tool.launch_url_override
    ELSE <<104,116,116,112,58,47,47,108,111,99,97,108,104,111,115,116,58,56,48,56,48>>
             \o tool.launch_path

\* C25: the request launch_tool built for a tool with the key test_key and
\* the secret test_secret, posted with all its parameters as they were
\* logged to the URL that was signed, passes the signature verification of
\* the sample tool.
C25_BuiltRequestVerifies ==
    [][SubmitsForm =>
        ((/\ Len(tools) = 1
          /\ tools[1].consumer_key = <<116,101,115,116,95,107,101,121>>
          /\ tools[1].consumer_secret = <<116,101,115,116,95,115,101,99,114,101,116>>
          /\ forms[1].action = SignedUrl(tools[1])
          /\ forms[1].fields = launch_logs[1].signed_params
          /\ launches'[Len(launches')][2].params = launch_logs[1].signed_params)
         => response' = Page(200, "launch"))]_vars

\* C30: launch_tool adds a launch log row only when the launch succeeds: a
\* launch of an unknown course tool or by an unknown user is answered 404
\* and adds no row; a successful launch appends exactly one row, whose
\* oauth_signature is the oauth_signature of its signed_params and whose
\* launch_params are its signed_params without oauth_signature.
C30_LogOnlyOnSuccess ==
    [][pc = "launch" =>
        /\ launch_logs' # launch_logs =>
              /\ Len(launch_logs') = Len(launch_logs) + 1
              /\ SubSeq(launch_logs', 1, Len(launch_logs)) = launch_logs
              /\ response' = Page(200, "launch form")
              /\ Len(forms') = Len(forms) + 1
              /\ \A row \in {launch_logs'[Len(launch_logs')]} :
                    /\ \E i \in 1..Len(course_tools) : course_tools[i].id = row.course_tool_id
                    /\ \E u \in 1..Len(users) : users[u].id = row.user_id
                    /\ \E i \in 1..Len(row.signed_params) :
                          row.signed_params[i] = <<oauth_signature, row.oauth_signature>>
                    /\ row.launch_params
                          = SelectSeq(row.signed_params, LAMBDA kv : kv[1] # oauth_signature)
                    /\ Len(row.launch_params) = Len(row.signed_params) - 1
        /\ response' = Page(404, "not found") => launch_logs' = launch_logs
        /\ response' = Page(200, "launch form") => Len(launch_logs') = Len(launch_logs) + 1
        /\ (course_tools = <<>> /\ response' # response /\ response'.page \in {"not found", "launch form"})
              => response' = Page(404, "not found")]_vars

\* A launch by user 4 was answered with the launch form and left the one
\* row of the log.
C30_Witness ==
    /\ pc = "launch"
    /\ Len(course_tools) >= 1
    /\ Len(launch_logs) = 1
    /\ launch_logs[1].user_id = 4
    /\ launch_logs[1].oauth_signature = DictGet(launch_logs[1].signed_params, oauth_signature, None)
    /\ ~DictHas(launch_logs[1].launch_params, oauth_signature)
    /\ Len(forms) = 1
    /\ response = Page(200, "launch form")

-----------------------------------------------------------------------------
(***************************************************************************)
(* SpecConcurrent: the sample tool serving requests concurrently.  uvicorn *)
(* runs the handlers as coroutines of one event loop, so a handler runs    *)
(* without interruption from one await to the next: lti_launch is          *)
(* suspended at "await request.form()", send_grade at "await               *)
(* client.post(...)".  inp holds the frames of the suspended handlers with *)
(* their local variables; any of them may be resumed next.                 *)
(***************************************************************************)
MaxInFlight == 2

\* Two launch requests that differ in the user, the sourced id and the
\* outcomes URL; the second one is posted with a query string.
ConcurrentRequests ==
    { [url |-> ToolLaunchUrl, params |-> SignedRequest(PlatformOutcomesUrl)],
      [url |-> ToolLaunchUrl \o <<63,97,61,49>>,
       params |-> build_lti_launch_params(
                      [consumer_key |-> EXPECTED_KEY, consumer_secret |-> EXPECTED_SECRET],
                      courses[1], users[3], uuid4(1, 1), <<83,97,109,112,108,101,32,84,111,111,108>>,
                      ToolLaunchUrl, OtherOutcomesUrl, <<>>, <<48>>, uuid4(2, 1)).val] }

\* The frame of a suspended handler.
Frame(handler, url, params, launch_id, body, score) ==
    [handler |-> handler, url |-> url, params |-> params,
     launch_id |-> launch_id, body |-> body, score |-> score]

\* The sequence without its element i.
Remove(seq, i) == SubSeq(seq, 1, i - 1) \o SubSeq(seq, i + 1, Len(seq))

ConcurrentInit ==
    /\ SysInit
    /\ pc = "concurrent"
    /\ inp = <<>>
    /\ out = <<>>

\* POST /lti/launch arrives: the handler starts and waits for the form.
BeginLaunch ==
    /\ pc = "concurrent"
    /\ Len(inp) < MaxInFlight
    /\ Len(launches) + Len(SelectSeq(inp, LAMBDA f : f.handler = "lti_launch")) < MaxDeliveries
    /\ \E req \in ConcurrentRequests :
          inp' = Append(inp, Frame("lti_launch", req.url, req.params, <<>>, <<>>, <<>>))
    /\ UNCHANGED <<sysvars, pc, out>>

\* The form was read: the handler runs from the checks to its response.
ResumeLaunch ==
    /\ pc = "concurrent"
    /\ \E i \in 1..Len(inp) :
          /\ inp[i].handler = "lti_launch"
          /\ \E timestamp \in now..MaxClock :
                lti_launch(inp[i].url, inp[i].params, timestamp)
          /\ inp' = Remove(inp, i)
    /\ UNCHANGED <<dbvars, forms, posts, pc, out>>

\* POST /send-grade arrives: the handler runs up to "await client.post",
\* with outcomes_url, sourced_id and xml_payload in its local variables.
BeginGrade ==
    /\ pc = "concurrent"
    /\ Len(inp) < MaxInFlight
    /\ Len(posts) + Len(SelectSeq(inp, LAMBDA f : f.handler = "send_grade")) < MaxPosts
    /\ \E launch_id \in DictKeys(launches) \cup {<<110,111,45,115,117,99,104,45,108,97,117,110,99,104>>},
          score \in ScoreInputs :
          IF ~DictHas(launches, launch_id)
          THEN /\ response' = Page(404, "Launch not found")
               /\ UNCHANGED <<inp, uuid_ctr>>
          ELSE \E params \in {DictGet(launches, launch_id, None).params} :
               \E outcomes_url \in {DictGet(params, K.lis_outcome_service_url, None)},
                  sourced_id \in {DictGet(params, K.lis_result_sourcedid, None)} :
                   IF ~outcomes_supported(outcomes_url, sourced_id)
                   THEN /\ response' = Page(400, "Outcomes not supported")
                        /\ UNCHANGED <<inp, uuid_ctr>>
                   ELSE /\ inp' = Append(inp,
                               Frame("send_grade", outcomes_url, <<>>, launch_id,
                                     xml_payload(uuid4(4, uuid_ctr.message_id), sourced_id, score),
                                     score))
                        /\ uuid_ctr' = [uuid_ctr EXCEPT !.message_id = @ + 1]
                        /\ UNCHANGED response
    /\ UNCHANGED <<dbvars, launches, forms, posts, now, pc, out>>

\* The POST of a suspended send_grade is answered, or fails: the handler
\* runs to its response.  posts records the POST with its reply.
EndGrade ==
    /\ pc = "concurrent"
    /\ \E i \in 1..Len(inp), reply \in {[status |-> 200, body |-> <<83,117,99,99,101,115,115>>, page |-> "xml"], NoResponse} :
          /\ inp[i].handler = "send_grade"
          /\ posts' = client_post(inp[i].launch_id, inp[i].url, inp[i].body, reply)
          /\ response' = IF reply = NoResponse THEN send_grade_except("ConnectError")
                         ELSE grade_page(inp[i].score, reply)
          /\ inp' = Remove(inp, i)
    /\ UNCHANGED <<dbvars, launches, forms, uuid_ctr, now, pc, out>>

ConcurrentNext ==
    \/ BeginLaunch
    \/ ResumeLaunch
    \/ BeginGrade
    \/ EndGrade

SpecConcurrent == ConcurrentInit /\ [][ConcurrentNext]_vars

\* C24: however the launch requests and grade pushes interleave, no entry
\* of the launch store is changed or removed; a new entry gets a launch id
\* of its own and the parameters of the one request whose handler stored
\* it; and every POST of send_grade goes to the outcomes URL of the entry
\* of its launch id and carries that entry's sourced id.
C24_LaunchesIsolated ==
    [][pc = "concurrent" =>
        /\ Len(launches') >= Len(launches)
        /\ \A i \in 1..Len(launches) : launches'[i] = launches[i]
        /\ Len(launches') > Len(launches) =>
              /\ Len(launches') = Len(launches) + 1
              /\ launches'[Len(launches')][1] \notin DictKeys(launches)
              /\ \E i \in 1..Len(inp) :
                    /\ inp[i].handler = "lti_launch"
                    /\ inp[i].params = launches'[Len(launches')][2].params
                    /\ inp' = Remove(inp, i)
        /\ Sends =>
              \A p \in SentPost :
                  /\ DictHas(launches', p.launch_id)
                  /\ \A own \in {DictGet(launches', p.launch_id, None).params} :
                     \A element \in {<<60,115,111,117,114,99,101,100,73,100,62>>
                                      \o DictGet(own, K.lis_result_sourcedid, None)
                                      \o <<60,47,115,111,117,114,99,101,100,73,100,62>>} :
                        /\ p.url = DictGet(own, K.lis_outcome_service_url, None)
                        /\ Contains(p.body, element)]_vars

\* Two different launches are stored, and a grade was pushed for each; the
\* push that was started first (message id 0) was answered last, so the two
\* pushes were in flight together, and each went to its own outcomes URL.
C24_Witness ==
    /\ pc = "concurrent"
    /\ Len(launches) = 2
    /\ launches[1][2].params # launches[2][2].params
    /\ Len(posts) = 2
    /\ posts[1].launch_id # posts[2].launch_id
    /\ posts[1].url # posts[2].url
    /\ Contains(posts[1].body, uuid4(4, 1))
    /\ Contains(posts[2].body, uuid4(4, 0))
    /\ inp = <<>>

=============================================================================
